---------------------------- MODULE Spec2Model ----------------------------
(* A model of the blog-collection agent: the browser reference count         *)
(* (core/browser_controller.py), the record builder (core/data_extractor.py), *)
(* the tool dispatcher and the orchestration loop                            *)
(* (pipelines/agent_pipeline.py, the pipeline main.py runs).                  *)
(* Strings the code inspects (URLs, names) are sequences of one-character    *)
(* strings; page text is a record of its leading blanks, body and trailing   *)
(* blanks, since the code only measures it.                                  *)
EXTENDS Integers, Sequences, FiniteSets, TLC

(***************************************************************************)
(* Bounds of the model.                                                    *)
(***************************************************************************)
\* the turn cap the model runs with (settings.AGENT_MAX_TURNS is 20)
MaxTurns == 2
\* the most tool calls one assistant turn carries
MaxCalls == 2
\* the most tool calls dispatched in one run
MaxInvocations == 2

(***************************************************************************)
(* Strings.                                                                *)
(***************************************************************************)
None == "None"

S_https == <<"h","t","t","p","s",":","/","/">>
S_http == <<"h","t","t","p",":","/","/">>

StartsWith(s, p) == Len(s) >= Len(p) /\ SubSeq(s, 1, Len(p)) = p

Drop(s, n) == SubSeq(s, n + 1, Len(s))

Take(s, n) == SubSeq(s, 1, IF n < Len(s) THEN n ELSE Len(s))

\* the two candidate pages and a URL with an unsupported scheme
URL1 == S_https \o <<"w","w","w",".","a","-","b",".","c","o","/","p","1">>
URL2 == S_http \o <<"c",".","i","o">>
URL_FTP == <<"f","t","p",":","/","/","a",".","c","o">>

NAME1 == <<"T","e","s","t"," ","B","l","o","g">>
KEYWORD1 == <<"a","i">>

LowerCase == <<"a","b","c","d","e","f","g","h","i","j","k","l","m",
               "n","o","p","q","r","s","t","u","v","w","x","y","z">>
UpperCase == <<"A","B","C","D","E","F","G","H","I","J","K","L","M",
               "N","O","P","Q","R","S","T","U","V","W","X","Y","Z">>
Digits == {"0","1","2","3","4","5","6","7","8","9"}

Range(s) == {s[i] : i \in DOMAIN s}

\* str.lower() on one character
LowerChar(c) ==
    IF c \in Range(UpperCase)
    THEN LowerCase[CHOOSE i \in DOMAIN UpperCase : UpperCase[i] = c]
    ELSE c

lower(s) == [i \in DOMAIN s |-> LowerChar(s[i])]

\* str.replace(old, new) for a one-character old and new
ReplaceChar[s \in Seq(STRING), old \in STRING, new \in STRING] ==
    [i \in DOMAIN s |-> IF s[i] = old THEN new ELSE s[i]]

\* str.replace(p, "") : every non-overlapping occurrence, left to right
RemoveAll[s \in Seq(STRING), p \in Seq(STRING)] ==
    IF s = <<>> THEN <<>>
    ELSE IF StartsWith(s, p) THEN RemoveAll[Drop(s, Len(p)), p]
    ELSE <<Head(s)>> \o RemoveAll[Tail(s), p]

\* s.split('/')[0]
UpToSlash[s \in Seq(STRING)] ==
    IF s = <<>> \/ Head(s) = "/" THEN <<>>
    ELSE <<Head(s)>> \o UpToSlash[Tail(s)]

\* re.sub(r'^https?://', '', url)
StripScheme(url) ==
    IF StartsWith(url, S_https) THEN Drop(url, Len(S_https))
    ELSE IF StartsWith(url, S_http) THEN Drop(url, Len(S_http))
    ELSE url

\* url.startswith(('http://', 'https://'))
HasHttpScheme(url) == StartsWith(url, S_http) \/ StartsWith(url, S_https)


(***************************************************************************)
(* core/data_extractor.py                                                  *)
(***************************************************************************)
NOT_FOUND == <<"N","o","t"," ","F","o","u","n","d">>
DATA_EXTRACTION_ERROR ==
    <<"D","a","t","a"," ","E","x","t","r","a","c","t","i","o","n"," ","E","r","r","o","r">>

\* settings.DATA_FIELDS_TO_EXTRACT
DATA_FIELDS_TO_EXTRACT ==
    <<"blog_id", "blog_name", "blog_url", "recent_post_date", "first_post_date",
      "total_posts", "blog_creation_date", "average_visitors", "llm_summary">>

\* the length of the name part of an identifier
NamePartLen == 20

\* _derive_blog_id, lines 16-18: the part of the identifier made from the URL
blog_id_part[url \in Seq(STRING)] ==
    ReplaceChar[ReplaceChar[RemoveAll[UpToSlash[StripScheme(url)], <<"w","w","w",".">>], ".", "_"],
                "-", "_"]

\* _derive_blog_id, line 20: the part of the identifier made from the name
name_part[blog_name \in Seq(STRING)] ==
    Take(SelectSeq(ReplaceChar[lower(blog_name), " ", "_"],
                   LAMBDA c : c \in Range(LowerCase) \cup Range(UpperCase) \cup Digits),
         NamePartLen)

\* a variant of the identifier that is made from the URL alone
derive_blog_id_from_url(url, blog_name) == blog_id_part[url]

\* DataExtractor._derive_blog_id with a name (every caller passes one)
derive_blog_id(url, blog_name) ==
    IF blog_name # <<>>
    THEN blog_id_part[url] \o <<"_">> \o name_part[blog_name]
    ELSE blog_id_part[url]

field_mapping_table ==
    [blog_name |-> <<"blog_name", "title", "site_title", "website_name", "name", "blog_title">>,
     blog_url |-> <<"blog_url", "url", "website_url", "site_url", "link">>,
     recent_post_date |-> <<"recent_post_date", "latest_post_date", "last_post_date",
                            "newest_post_date", "latest_post">>,
     first_post_date |-> <<"first_post_date", "first_post_date_info", "earliest_post_date",
                           "start_date", "first_post">>,
     total_posts |-> <<"total_posts", "total_posts_info", "post_count", "article_count",
                       "number_of_posts", "posts_count">>,
     blog_creation_date |-> <<"blog_creation_date", "blog_creation_date_info", "created_date",
                              "founding_date", "launch_date">>,
     average_visitors |-> <<"average_visitors", "average_visitors_hint", "monthly_visitors",
                            "visitor_count", "traffic", "page_views">>,
     llm_summary |-> <<"llm_summary", "main_content_summary", "summary", "description",
                       "about", "content_summary">>]

\* the inner loop of structure_blog_info: the value of the first alias that is
\* a key of the raw mapping (the loop breaks there, whatever the value)
FirstPresent(raw, aliases) ==
    LET present == {i \in DOMAIN aliases : aliases[i] \in DOMAIN raw}
    IN  IF present = {} THEN <<>>
        ELSE raw[aliases[CHOOSE i \in present : \A j \in present : i <= j]]

\* structure_blog_info, lines 62-83: the value the mapping loop leaves in a
\* field; raw is the decoded mapping
mapped_field(raw, blog_url, f) ==
    IF f \in DOMAIN field_mapping_table
       /\ FirstPresent(raw, field_mapping_table[f]) # <<>>
    THEN FirstPresent(raw, field_mapping_table[f])
    ELSE IF f = "blog_url" THEN blog_url
    ELSE NOT_FOUND

\* structure_blog_info, lines 89-96: a field of the returned record; the
\* identifier is derived from the URL and the structured name, and an empty
\* value becomes the sentinel
structured_field(raw, blog_url, f) ==
    IF f = "blog_id"
    THEN IF derive_blog_id(blog_url, mapped_field(raw, blog_url, "blog_name")) = <<>>
         THEN NOT_FOUND
         ELSE derive_blog_id(blog_url, mapped_field(raw, blog_url, "blog_name"))
    ELSE IF mapped_field(raw, blog_url, f) = <<>> THEN NOT_FOUND
    ELSE mapped_field(raw, blog_url, f)

\* DataExtractor.structure_blog_info; decoded is [is_dict, map], the decoded
\* field-extraction output (values are strings, "" is <<>>)
structure_blog_info(decoded, blog_url) ==
    IF ~decoded.is_dict
    THEN [f \in Range(DATA_FIELDS_TO_EXTRACT) |->
            CASE f = "blog_url" -> blog_url
              [] f = "blog_name" -> DATA_EXTRACTION_ERROR
              [] f = "blog_id" -> derive_blog_id(blog_url, DATA_EXTRACTION_ERROR)
              [] OTHER -> NOT_FOUND]
    ELSE [f \in Range(DATA_FIELDS_TO_EXTRACT) |->
            structured_field(decoded.map, blog_url, f)]

(***************************************************************************)
(* core/browser_controller.py: the session and its use-count.  A browser   *)
(* state is [driver, count]: driver is TRUE while a session is running.    *)
(***************************************************************************)
\* BrowserController.__init__
NewBrowser == [driver |-> FALSE, count |-> 0]

\* BrowserController._ensure_browser; launch_ok is whether starting the
\* session succeeds when one has to be started
ensure_browser(br, launch_ok) ==
    IF br.driver
    THEN [br |-> [br EXCEPT !.count = br.count + 1], raised |-> FALSE, launched |-> FALSE]
    ELSE IF launch_ok
    THEN [br |-> [driver |-> TRUE, count |-> br.count + 1], raised |-> FALSE, launched |-> TRUE]
    ELSE [br |-> br, raised |-> TRUE, launched |-> FALSE]

\* a variant of the release that closes the session whatever the count
maybe_close_browser_always(br, force_close) ==
    LET c == br.count - 1
    IN  IF force_close \/ br.driver
        THEN [driver |-> FALSE, count |-> c]
        ELSE IF c < 0
        THEN [driver |-> br.driver, count |-> 0]
        ELSE [driver |-> br.driver, count |-> c]

\* BrowserController._maybe_close_browser
maybe_close_browser(br, force_close) ==
    LET c == br.count - 1
    IN  IF force_close \/ (c <= 0 /\ br.driver)
        THEN [driver |-> FALSE, count |-> c]
        ELSE IF c < 0
        THEN [driver |-> br.driver, count |-> 0]
        ELSE [driver |-> br.driver, count |-> c]

\* BrowserController.browse_website: page is what the session reports,
\* [status, has_text, text] (has_text: the data carries a text_content)
browse_website(br, launch_ok, page, close_browser) ==
    LET acq == ensure_browser(br, launch_ok)
    IN  [br |-> maybe_close_browser(acq.br, close_browser),
         result |-> IF acq.raised THEN [page EXCEPT !.status = "error", !.has_text = FALSE]
                    ELSE page]

(***************************************************************************)
(* core/web_searcher.py                                                    *)
(***************************************************************************)
\* WebSearcher.search_links: provider is [ok, hrefs], what the search
\* provider answers; a failure is turned into the decorator's default_return
search_links(query, provider) ==
    IF query = <<>> \/ ~provider.ok
    THEN <<>>
    ELSE SelectSeq(provider.hrefs, LAMBDA u : u # <<>> /\ HasHttpScheme(u))

(***************************************************************************)
(* pipelines/agent_pipeline.py: the dispatcher.                            *)
(* Arguments are [is_mapping, map]; a page text is [lead, body, trail],    *)
(* the numbers of leading blanks, of characters from the first to the last *)
(* non-blank one, and of trailing blanks.  A reasoning-service answer to a  *)
(* tool's own request is [kind, map]: kind "none" is an empty content,     *)
(* "garbage" a content no decoding strategy accepts, "dict" a content that *)
(* decodes to the mapping map, "nondict" one that decodes to a list.       *)
(***************************************************************************)
\* thresholds of the content-quality bands and of the extraction input
VeryShortBelow == 100
ShortBelow == 300
MinExtractLen == 50
AutoExtractChars == 5000

TextLen(t) == t.lead + t.body + t.trail

\* len(text.strip())
StrippedLen(t) == t.body

\* text[:n]
Truncate(t, n) ==
    IF TextLen(t) <= n THEN t
    ELSE IF t.lead >= n THEN [lead |-> n, body |-> 0, trail |-> 0]
    ELSE IF t.lead + t.body >= n THEN [lead |-> t.lead, body |-> n - t.lead, trail |-> 0]
    ELSE [lead |-> t.lead, body |-> t.body, trail |-> n - t.lead - t.body]

\* dict.get(key) on decoded arguments: <<>> stands for a missing key
Get(args, key) == IF key \in DOMAIN args.map THEN args.map[key] ELSE <<>>

KNOWN_TOOLS ==
    {"search_web_for_blogs", "finalize_blog_data_collection",
     "get_webpage_content_and_interact", "extract_blog_fields_from_text"}

\* the names _execute_tool_call has a branch for
DISPATCHED_TOOLS == KNOWN_TOOLS \cup {"analyze_blog_quality", "smart_search_refinement"}

\* the uniform shape of a tool result (the JSON object a branch returns)
Result(status, kind) ==
    [status |-> status, kind |-> kind, url |-> <<>>, found_urls |-> <<>>,
     text_length |-> 0, quality_status |-> "", warning |-> FALSE,
     final_blog_count |-> 0, blog_name |-> <<>>, blog_id |-> <<>>]

\* what a dispatch gives back: the exception it raised ("none" if it
\* returned), its result, the store and the browser after it, the
\* reasoning-service calls and browser calls it made, and the extractions
\* it started by itself
Outcome(raised, result, store, br, llm_calls, browses, auto) ==
    [raised |-> raised, result |-> result, store |-> store, br |-> br,
     llm_calls |-> llm_calls, browses |-> browses, auto |-> auto]

\* _execute_tool_call, keyword recovery: the conversation is scanned from the
\* latest turn back, the calls of a turn in order, for a search call with a
\* keyword; arguments that are still a string and decode to a non-mapping
\* make the scan raise; with no hit the keyword of the initial user turn is
\* used.  The answer is [raised, keyword].
RecoverKeyword(history) ==
    LET IsSearch(i, j) ==
            /\ history[i].role = "assistant"
            /\ history[i].tool_calls[j].name = "search_web_for_blogs"
        IsHit(i, j) ==
            /\ history[i].tool_calls[j].arguments.is_mapping
            /\ Get(history[i].tool_calls[j].arguments, "keyword") # <<>>
        IsRaise(i, j) ==
            /\ ~history[i].tool_calls[j].arguments.is_mapping
            /\ history[i].tool_calls[j].arguments.form = "str"
        stops == {p \in UNION {{<<i, j>> : j \in DOMAIN history[i].tool_calls} :
                                  i \in DOMAIN history} :
                     IsSearch(p[1], p[2]) /\ (IsHit(p[1], p[2]) \/ IsRaise(p[1], p[2]))}
        Before(p, q) == p[1] > q[1] \/ (p[1] = q[1] /\ p[2] <= q[2])
        first == CHOOSE p \in stops : \A q \in stops : Before(p, q)
    IN  IF stops = {}
        THEN [raised |-> "none", keyword |-> <<"user_turn_keyword">>]
        ELSE IF IsRaise(first[1], first[2])
        THEN [raised |-> "AttributeError", keyword |-> <<>>]
        ELSE [raised |-> "none",
              keyword |-> Get(history[first[1]].tool_calls[first[2]].arguments, "keyword")]

\* a variant of the extract branch that puts the new record in front of the
\* records of the store
store_extracted_in_front(info, store, br) ==
    Outcome("none",
            [Result("success", "extract_ok") EXCEPT
                !.blog_name = info["blog_name"], !.blog_id = info["blog_id"]],
            <<info>> \o store, br, 1, 0, 0)

\* extract branch, lines 361-387: the structured record, tagged with its
\* keyword, is appended to the store
store_extracted(info, store, br) ==
    Outcome("none",
            [Result("success", "extract_ok") EXCEPT
                !.blog_name = info["blog_name"], !.blog_id = info["blog_id"]],
            Append(store, info), br, 1, 0, 0)

\* extract branch, lines 247-387, once the keyword is known; recovery is
\* [raised, keyword]
extract_checked(text_content, original_url, recovery, store, br, llm) ==
    IF recovery.raised # "none"
    THEN Outcome(recovery.raised, Result("error", "raised"), store, br, 0, 0, 0)
    ELSE IF TextLen(text_content) = 0
    THEN Outcome("none", Result("error", "extract_no_text"), store, br, 0, 0, 0)
    ELSE IF original_url = <<>>
    THEN Outcome("none", Result("error", "extract_no_url"), store, br, 0, 0, 0)
    ELSE IF StrippedLen(text_content) = 0
    THEN Outcome("none", Result("error", "extract_empty_text"), store, br, 0, 0, 0)
    ELSE IF StrippedLen(text_content) < MinExtractLen
    THEN Outcome("none", Result("error", "extract_short_text"), store, br, 0, 0, 0)
    ELSE IF llm.kind = "none"
    THEN Outcome("TypeError", Result("error", "raised"), store, br, 1, 0, 0)
    ELSE IF llm.kind = "garbage"
    THEN Outcome("none", Result("error", "extract_undecodable"), store, br, 1, 0, 0)
    ELSE store_extracted(
             structure_blog_info([is_dict |-> llm.kind = "dict", map |-> llm.map],
                                 original_url)
                 @@ [source_keyword |-> recovery.keyword],
             store, br)

\* _execute_tool_call, branch extract_blog_fields_from_text
extract_branch(tool_args, store, history, br, llm) ==
    extract_checked(
        IF "text_content" \in DOMAIN tool_args.map
        THEN tool_args.map["text_content"]
        ELSE [lead |-> 0, body |-> 0, trail |-> 0],
        IF "original_url" \in DOMAIN tool_args.map /\ tool_args.map["original_url"] # <<>>
        THEN tool_args.map["original_url"]
        ELSE Get(tool_args, "url"),
        IF "source_keyword" \in DOMAIN tool_args.map
        THEN [raised |-> "none", keyword |-> tool_args.map["source_keyword"]]
        ELSE RecoverKeyword(history),
        store, br, llm)

\* a variant of the bands in which 100 and 300 characters fall into the band
\* below
QualityStatusStrict(text_length) ==
    IF text_length > ShortBelow THEN "good"
    ELSE IF text_length > VeryShortBelow THEN "short"
    ELSE IF text_length > 0 THEN "very_short"
    ELSE "empty"

\* the quality_status expression of the fetch result
QualityStatus(text_length) ==
    IF text_length >= ShortBelow THEN "good"
    ELSE IF text_length >= VeryShortBelow THEN "short"
    ELSE IF text_length > 0 THEN "very_short"
    ELSE "empty"

\* fetch branch, lines 126-149: the extraction the branch starts by itself;
\* an exception of it is caught there
auto_extracted(fetched, forced) ==
    [fetched EXCEPT !.store = forced.store, !.llm_calls = forced.llm_calls, !.auto = 1]

\* a variant of the fetch that starts the extraction for a short text too
fetch_visited_from_short(url, text_content, visit_br, store, history, llm) ==
    LET text_length == IF TextLen(text_content) = 0 THEN 0 ELSE StrippedLen(text_content)
        fetched == Outcome("none",
                           [Result("success", "fetch_ok") EXCEPT
                               !.url = url, !.text_length = text_length,
                               !.quality_status = QualityStatus(text_length),
                               !.warning = text_length < ShortBelow],
                           store, visit_br, 0, 1, 0)
    IN  IF text_length = 0 \/ text_length < VeryShortBelow
        THEN fetched
        ELSE auto_extracted(
                 fetched,
                 extract_branch(
                     [is_mapping |-> TRUE, form |-> "obj",
                      map |-> [text_content |-> Truncate(text_content, AutoExtractChars),
                               original_url |-> url]],
                     store, history, visit_br, llm))

\* fetch branch, lines 100-185, after the visit; text_content is the text of
\* the page, "" when there is none
fetch_visited(url, text_content, visit_br, store, history, llm) ==
    LET text_length == IF TextLen(text_content) = 0 THEN 0 ELSE StrippedLen(text_content)
        fetched == Outcome("none",
                           [Result("success", "fetch_ok") EXCEPT
                               !.url = url, !.text_length = text_length,
                               !.quality_status = QualityStatus(text_length),
                               !.warning = text_length < ShortBelow],
                           store, visit_br, 0, 1, 0)
    IN  IF text_length = 0 \/ text_length < VeryShortBelow \/ text_length < ShortBelow
        THEN fetched
        ELSE auto_extracted(
                 fetched,
                 extract_branch(
                     [is_mapping |-> TRUE, form |-> "obj",
                      map |-> [text_content |-> Truncate(text_content, AutoExtractChars),
                               original_url |-> url]],
                     store, history, visit_br, llm))

\* fetch branch, lines 84-98: what the visit gave
fetch_browsed(url, visit, store, history, llm) ==
    IF visit.result.status # "success"
    THEN Outcome("none", [Result("error", "fetch_failed") EXCEPT !.url = url],
                 store, visit.br, 0, 1, 0)
    ELSE fetch_visited(url,
                       IF visit.result.has_text THEN visit.result.text
                       ELSE [lead |-> 0, body |-> 0, trail |-> 0],
                       visit.br, store, history, llm)

\* a variant of the fetch that visits a URL of any scheme
fetch_branch_any_scheme(tool_args, store, history, br, ext) ==
    IF Get(tool_args, "url") = <<>>
    THEN Outcome("none", Result("error", "fetch_no_url"), store, br, 0, 0, 0)
    ELSE fetch_browsed(Get(tool_args, "url"),
                       browse_website(br, ext.launch_ok, ext.page, FALSE),
                       store, history, ext.llm)

\* _execute_tool_call, branch get_webpage_content_and_interact; ext is
\* [provider, launch_ok, page, llm], what the collaborators answer
fetch_branch(tool_args, store, history, br, ext) ==
    IF Get(tool_args, "url") = <<>>
    THEN Outcome("none", Result("error", "fetch_no_url"), store, br, 0, 0, 0)
    ELSE IF ~HasHttpScheme(Get(tool_args, "url"))
    THEN Outcome("none",
                 [Result("error", "fetch_bad_url") EXCEPT !.url = Get(tool_args, "url")],
                 store, br, 0, 0, 0)
    ELSE fetch_browsed(Get(tool_args, "url"),
                       browse_website(br, ext.launch_ok, ext.page, FALSE),
                       store, history, ext.llm)

\* _execute_tool_call, branch search_web_for_blogs
search_branch(tool_args, store, br, ext) ==
    LET keyword == Get(tool_args, "keyword")
        urls == search_links(keyword, ext.provider)
    IN  IF keyword = <<>>
        THEN Outcome("none", Result("error", "search_no_keyword"), store, br, 0, 0, 0)
        ELSE Outcome("none", [Result("success", "search_ok") EXCEPT !.found_urls = urls],
                     store, br, 0, 0, 0)

\* _execute_tool_call, branch finalize_blog_data_collection
finalize_branch(tool_args, store, br, llm) ==
    IF store # <<>> /\ llm.kind = "none"
    THEN Outcome("TypeError", Result("error", "raised"), store, br, 1, 0, 0)
    ELSE IF store # <<>> /\ llm.kind = "nondict"
    THEN Outcome("AttributeError", Result("error", "raised"), store, br, 1, 0, 0)
    ELSE Outcome("none",
                 [Result("success", "finalize_ok") EXCEPT !.final_blog_count = Len(store)],
                 store, br, IF store # <<>> THEN 1 ELSE 0, 0, 0)

\* _execute_tool_call, branches analyze_blog_quality and smart_search_refinement
advisory_branch(tool_name, tool_args, store, br, llm) ==
    LET complete ==
            IF tool_name = "analyze_blog_quality"
            THEN Get(tool_args, "blog_url") # <<>>
            ELSE Get(tool_args, "original_keyword") # <<>>
                 /\ Get(tool_args, "search_results_quality") # <<>>
    IN  IF ~complete
        THEN Outcome("none", Result("error", "advisory_missing_argument"), store, br, 0, 0, 0)
        ELSE IF llm.kind = "none"
        THEN Outcome("TypeError", Result("error", "raised"), store, br, 1, 0, 0)
        ELSE IF llm.kind = "nondict" /\ tool_name = "analyze_blog_quality"
        THEN Outcome("AttributeError", Result("error", "raised"), store, br, 1, 0, 0)
        ELSE Outcome("none", Result("success", "advisory_ok"), store, br, 1, 0, 0)

\* AgentPipeline._execute_tool_call
execute_tool_call(tool_name, tool_args, store, history, br, ext) ==
    IF tool_name \notin DISPATCHED_TOOLS
    THEN Outcome("none", Result("error", "unknown_tool"), store, br, 0, 0, 0)
    ELSE IF ~tool_args.is_mapping
    THEN Outcome("AttributeError", Result("error", "raised"), store, br, 0, 0, 0)
    ELSE CASE tool_name = "search_web_for_blogs" ->
                search_branch(tool_args, store, br, ext)
           [] tool_name = "get_webpage_content_and_interact" ->
                fetch_branch(tool_args, store, history, br, ext)
           [] tool_name = "extract_blog_fields_from_text" ->
                extract_branch(tool_args, store, history, br, ext.llm)
           [] tool_name = "finalize_blog_data_collection" ->
                finalize_branch(tool_args, store, br, ext.llm)
           [] OTHER ->
                advisory_branch(tool_name, tool_args, store, br, ext.llm)

(***************************************************************************)
(* Conversation turns.  Every turn has the same fields; content is a       *)
(* record: a tool result for a tool turn, a description of the text        *)
(* otherwise.                                                              *)
(***************************************************************************)
EmptyArgs == [is_mapping |-> TRUE, form |-> "str", decodable |-> TRUE, map |-> <<>>]

Args(m) == [EmptyArgs EXCEPT !.map = m]

NoCallId == [origin |-> "none", n |-> 0, args |-> EmptyArgs]

Turn(role, content, calls, id, name) ==
    [role |-> role, content |-> content, tool_calls |-> calls,
     tool_call_id |-> id, name |-> name]

NoObject == [is_obj |-> FALSE, has_name |-> FALSE, name |-> "",
             has_parameters |-> FALSE, parameters |-> EmptyArgs]

\* a content of None
NoContent == [kind |-> "none", parsed |-> NoObject, embedded |-> NoObject,
              decode_raises |-> "none",
              mentions_extract |-> FALSE, has_text_match |-> FALSE,
              text_match |-> [lead |-> 0, body |-> 0, trail |-> 0], url_match |-> <<>>]

\* an assistant text: parsed is what the fenced-block and whole-text decoding
\* give (NoObject if nothing decodes), embedded the object that stands
\* between the first and the last brace of a text that has no fenced block
\* and begins with another character (lines 652-666 hand such a text to no
\* decoder), decode_raises the exception the decoder
\* lets escape, mentions_extract whether the text names the extraction tool,
\* has_text_match, text_match and url_match what the two fallback patterns
\* capture
Text(parsed, decode_raises, mentions_extract, has_text_match, text_match, url_match) ==
    [kind |-> "text", parsed |-> parsed, embedded |-> NoObject,
     decode_raises |-> decode_raises,
     mentions_extract |-> mentions_extract, has_text_match |-> has_text_match,
     text_match |-> text_match, url_match |-> url_match]

PlainText == Text(NoObject, "none", FALSE, FALSE, [lead |-> 0, body |-> 0, trail |-> 0], <<>>)

\* an object with a name and a parameters entry
CallObject(name, parameters) ==
    [is_obj |-> TRUE, has_name |-> TRUE, name |-> name,
     has_parameters |-> TRUE, parameters |-> parameters]

SystemTurn == Turn("system", [PlainText EXCEPT !.kind = "prompt"], <<>>, NoCallId, "")
UserTurn == Turn("user", [PlainText EXCEPT !.kind = "prompt"], <<>>, NoCallId, "")

(***************************************************************************)
(* core/llm_handler.py                                                     *)
(***************************************************************************)
\* chat_with_ollama_for_tools, lines 62-82: the arguments of the tool calls
\* of the assistant turns are decoded in place (the copies are shallow)
DecodeHistoryArguments(history) ==
    [i \in DOMAIN history |->
        [history[i] EXCEPT !.tool_calls =
            [j \in DOMAIN history[i].tool_calls |->
                [history[i].tool_calls[j] EXCEPT !.arguments =
                    IF @.form = "str"
                    THEN IF @.decodable THEN [@ EXCEPT !.form = "obj"]
                         ELSE [EmptyArgs EXCEPT !.form = "obj"]
                    ELSE @]]]]

\* chat_with_ollama_for_tools, lines 119-130: the arguments of one structured
\* call, raw is [type, decodes, value]
ParseRawArguments(raw) ==
    IF raw.type = "str"
    THEN IF raw.decodes THEN raw.value
         ELSE Args([error_parsing_args |-> <<"raw">>])
    ELSE IF raw.type = "dict" THEN raw.value
    ELSE EmptyArgs

\* lines 148-156: the text of the turn that stands for a failed call, the
\* word for error followed by the exception's text or class
ErrorText == [PlainText EXCEPT !.kind = "error"]

\* a variant of the handler in which the text of a failed call is one that
\* the decoder of the loop cannot take
chat_with_ollama_for_tools_failing_on(answer, first_id) ==
    LET kept == SelectSeq(answer.calls, LAMBDA c : c.name # "" /\ c.arguments.type # "null")
        calls == [j \in DOMAIN kept |->
                    [id |-> [origin |-> "uuid", n |-> first_id + j - 1, args |-> EmptyArgs],
                     name |-> kept[j].name,
                     arguments |-> ParseRawArguments(kept[j].arguments)]]
    IN  IF answer.failed
        THEN Turn("assistant", [ErrorText EXCEPT !.decode_raises = "TypeError"],
                  <<>>, NoCallId, "")
        ELSE Turn("assistant", answer.content, calls, NoCallId, "")

\* chat_with_ollama_for_tools, lines 84-156: the assistant turn built from
\* the service's answer [failed, content, calls]; ids are fresh
chat_with_ollama_for_tools(answer, first_id) ==
    LET kept == SelectSeq(answer.calls, LAMBDA c : c.name # "" /\ c.arguments.type # "null")
        calls == [j \in DOMAIN kept |->
                    [id |-> [origin |-> "uuid", n |-> first_id + j - 1, args |-> EmptyArgs],
                     name |-> kept[j].name,
                     arguments |-> ParseRawArguments(kept[j].arguments)]]
    IN  IF answer.failed
        THEN Turn("assistant", ErrorText, <<>>, NoCallId, "")
        ELSE Turn("assistant", answer.content, calls, NoCallId, "")

(***************************************************************************)
(* pipelines/agent_pipeline.py: run_agent_for_keywords.                    *)
(***************************************************************************)
\* the cut of the fallback's text and the length of its marker
FallbackTextLimit == 2000
TruncatedMarkLen == 14

\* lines 683-694: the url of the latest successful fetch result
RecentUrl(history) ==
    LET hits == {i \in DOMAIN history :
                    /\ history[i].role = "tool"
                    /\ history[i].name = "get_webpage_content_and_interact"
                    /\ history[i].content.status = "success"}
    IN  IF hits = {} THEN <<>>
        ELSE history[CHOOSE i \in hits : \A k \in hits : k <= i].content.url

\* a variant of the fallback that gives nothing when the text holds no url
FallbackObjectRequiringUrl(content, history) ==
    LET t == content.text_match
        cut == IF TextLen(t) > FallbackTextLimit
               THEN LET c == Truncate(t, FallbackTextLimit)
                    IN  IF c.body = 0
                        THEN [lead |-> c.lead + c.trail, body |-> TruncatedMarkLen, trail |-> 0]
                        ELSE [lead |-> c.lead, body |-> c.body + c.trail + TruncatedMarkLen,
                              trail |-> 0]
               ELSE t
    IN  IF ~content.has_text_match \/ content.url_match = <<>> THEN NoObject
        ELSE CallObject("extract_blog_fields_from_text",
                        Args([text_content |-> cut, original_url |-> content.url_match]))

\* lines 675-722: the object the extraction fallback synthesizes
FallbackObject(content, history) ==
    LET t == content.text_match
        cut == IF TextLen(t) > FallbackTextLimit
               THEN LET c == Truncate(t, FallbackTextLimit)
                    IN  IF c.body = 0
                        THEN [lead |-> c.lead + c.trail, body |-> TruncatedMarkLen, trail |-> 0]
                        ELSE [lead |-> c.lead, body |-> c.body + c.trail + TruncatedMarkLen,
                              trail |-> 0]
               ELSE t
        url == IF content.url_match # <<>> THEN content.url_match
               ELSE IF RecentUrl(history) # <<>> THEN RecentUrl(history)
               ELSE <<"unknown_url">>
    IN  IF ~content.has_text_match THEN NoObject
        ELSE CallObject("extract_blog_fields_from_text",
                        Args([text_content |-> cut, original_url |-> url]))

\* a variant of the interpreter that recovers the name of the object and
\* leaves its parameters behind
interpret_without_parameters(assistant, history) ==
    LET content == assistant.content
        parsed == IF ~content.parsed.is_obj /\ content.mentions_extract
                  THEN FallbackObject(content, history)
                  ELSE content.parsed
    IN  IF assistant.tool_calls # <<>> \/ content.kind = "none"
        THEN [raised |-> "none", tool_calls |-> assistant.tool_calls]
        ELSE IF content.decode_raises # "none"
        THEN [raised |-> content.decode_raises, tool_calls |-> <<>>]
        ELSE IF parsed.is_obj /\ parsed.has_name /\ parsed.has_parameters
                /\ parsed.name \in KNOWN_TOOLS
        THEN [raised |-> "none",
              tool_calls |-> <<[id |-> [origin |-> "content", n |-> 0,
                                        args |-> EmptyArgs],
                                name |-> parsed.name,
                                arguments |-> EmptyArgs]>>]
        ELSE [raised |-> "none", tool_calls |-> <<>>]

\* a variant of the interpreter that takes an object recovered from the text
\* whatever its name
interpret_any_name(assistant, history) ==
    LET content == assistant.content
        parsed == IF ~content.parsed.is_obj /\ content.mentions_extract
                  THEN FallbackObject(content, history)
                  ELSE content.parsed
    IN  IF assistant.tool_calls # <<>> \/ content.kind = "none"
        THEN [raised |-> "none", tool_calls |-> assistant.tool_calls]
        ELSE IF content.decode_raises # "none"
        THEN [raised |-> content.decode_raises, tool_calls |-> <<>>]
        ELSE IF parsed.is_obj /\ parsed.has_name /\ parsed.has_parameters
        THEN [raised |-> "none",
              tool_calls |-> <<[id |-> [origin |-> "content", n |-> 0,
                                        args |-> parsed.parameters],
                                name |-> parsed.name,
                                arguments |-> parsed.parameters]>>]
        ELSE [raised |-> "none", tool_calls |-> <<>>]

\* lines 613-748: the tool calls of an assistant turn, [raised, tool_calls]
interpret(assistant, history) ==
    LET content == assistant.content
        parsed == IF ~content.parsed.is_obj /\ content.mentions_extract
                  THEN FallbackObject(content, history)
                  ELSE content.parsed
    IN  IF assistant.tool_calls # <<>> \/ content.kind = "none"
        THEN [raised |-> "none", tool_calls |-> assistant.tool_calls]
        ELSE IF content.decode_raises # "none"
        THEN [raised |-> content.decode_raises, tool_calls |-> <<>>]
        ELSE IF parsed.is_obj /\ parsed.has_name /\ parsed.has_parameters
                /\ parsed.name \in KNOWN_TOOLS
        THEN [raised |-> "none",
              tool_calls |-> <<[id |-> [origin |-> "content", n |-> 0,
                                        args |-> parsed.parameters],
                                name |-> parsed.name,
                                arguments |-> parsed.parameters]>>]
        ELSE [raised |-> "none", tool_calls |-> <<>>]

\* a variant of the writer that names every file alike
save_data_with_one_prefix(data, filename_prefix, write_ok) ==
    IF data = <<>> \/ ~write_ok THEN None ELSE "agent_blog_data"

\* utils/excel_writer.py, DataWriter.save_data: the path, or None
save_data(data, filename_prefix, write_ok) ==
    IF data = <<>> \/ ~write_ok THEN None ELSE filename_prefix

\* the exception classes the handler "except RuntimeError" catches
RuntimeErrors == {"RuntimeError", "RecursionError"}

\* lines 846-855: the URLs of the successful search results of the conversation
UrlsFoundInHistory(history) ==
    UNION {Range(history[i].content.found_urls) :
              i \in {k \in DOMAIN history :
                        /\ history[k].role = "tool"
                        /\ history[k].name = "search_web_for_blogs"
                        /\ history[k].content.status = "success"}}

\* a variant of the placeholder that uses the identifier and the sentinel of
\* the structured records
PlaceholderWithSentinel(url_item) ==
    [blog_name |-> NOT_FOUND,
     url |-> url_item,
     blog_id |-> <<"extraction-failed">>,
     post_title |-> NOT_FOUND,
     recent_post_date |-> NOT_FOUND,
     total_posts |-> NOT_FOUND]

\* lines 861-868: the record stored for a URL that was found but not extracted
Placeholder(url_item) ==
    [blog_name |-> <<"extraction failed - URL only">>,
     url |-> url_item,
     blog_id |-> <<"extraction-failed-url-only">>,
     post_title |-> <<"N/A">>,
     recent_post_date |-> <<"N/A">>,
     total_posts |-> <<"N/A">>]

\* the orders in which a set can be iterated
Orders(S) == {q \in [1..Cardinality(S) -> S] : \A i, j \in DOMAIN q : i # j => q[i] # q[j]}

(***************************************************************************)
(* What the collaborators may answer.                                      *)
(***************************************************************************)
Body(n) == [lead |-> 0, body |-> n, trail |-> 0]

RawArgs(value) == [type |-> "str", decodes |-> TRUE, value |-> value]

RawCall(name, raw) == [name |-> name, arguments |-> raw]

\* the structured calls the reasoning service asks for
RawCalls ==
    {RawCall("search_web_for_blogs", RawArgs(Args([keyword |-> KEYWORD1]))),
     RawCall("search_web_for_blogs", [RawArgs(EmptyArgs) EXCEPT !.decodes = FALSE]),
     RawCall("search_web_for_blogs", RawArgs([EmptyArgs EXCEPT !.is_mapping = FALSE])),
     RawCall("get_webpage_content_and_interact", RawArgs(Args([url |-> URL1]))),
     RawCall("get_webpage_content_and_interact", RawArgs(Args([url |-> URL_FTP]))),
     RawCall("get_webpage_content_and_interact", RawArgs(EmptyArgs)),
     RawCall("extract_blog_fields_from_text",
             RawArgs(Args([text_content |-> Body(MinExtractLen), original_url |-> URL1]))),
     RawCall("extract_blog_fields_from_text",
             RawArgs(Args([text_content |-> [lead |-> 1, body |-> MinExtractLen - 1,
                                             trail |-> 1],
                           original_url |-> URL1]))),
     RawCall("extract_blog_fields_from_text",
             RawArgs(Args([text_content |-> Body(0), original_url |-> URL1]))),
     RawCall("finalize_blog_data_collection", RawArgs(Args([all_tasks_completed |-> TRUE]))),
     RawCall("finalize_blog_data_collection", RawArgs(Args([all_tasks_completed |-> FALSE]))),
     RawCall("analyze_blog_quality", RawArgs(Args([blog_url |-> URL1]))),
     RawCall("bogus_tool", RawArgs(EmptyArgs))}

\* the texts of the turns that carry no structured call
TextContents ==
    {NoContent,
     PlainText,
     [PlainText EXCEPT !.parsed =
         CallObject("search_web_for_blogs", Args([keyword |-> KEYWORD1]))],
     [PlainText EXCEPT !.parsed = CallObject("bogus_tool", EmptyArgs)],
     [PlainText EXCEPT !.parsed =
         CallObject("analyze_blog_quality", Args([blog_url |-> URL1]))],
     [PlainText EXCEPT !.decode_raises = "RecursionError"],
     [PlainText EXCEPT !.decode_raises = "TypeError"],
     [PlainText EXCEPT !.mentions_extract = TRUE, !.has_text_match = TRUE,
                       !.text_match = Body(MinExtractLen)],
     [PlainText EXCEPT !.mentions_extract = TRUE, !.has_text_match = TRUE,
                       !.text_match = Body(MinExtractLen), !.url_match = URL2],
     [PlainText EXCEPT !.mentions_extract = TRUE, !.url_match = URL1],
     [PlainText EXCEPT !.embedded =
         CallObject("search_web_for_blogs", Args([keyword |-> KEYWORD1]))],
     [PlainText EXCEPT !.parsed = [NoObject EXCEPT !.is_obj = TRUE],
                       !.mentions_extract = TRUE, !.has_text_match = TRUE,
                       !.text_match = Body(MinExtractLen), !.url_match = URL1]}

\* the answers of the reasoning service to the main loop with at most n calls
Answers(n) ==
    {[failed |-> TRUE, content |-> NoContent, calls |-> <<>>]}
    \cup {[failed |-> FALSE, content |-> c, calls |-> <<>>] : c \in TextContents}
    \cup {[failed |-> FALSE, content |-> NoContent, calls |-> q] :
             q \in UNION {[1..k -> RawCalls] : k \in 1..(IF n < MaxCalls THEN n ELSE MaxCalls)}}

DefaultProvider == [ok |-> FALSE, hrefs |-> <<>>]
Providers == {DefaultProvider,
              [ok |-> TRUE, hrefs |-> <<URL1>>],
              [ok |-> TRUE, hrefs |-> <<URL2, URL_FTP, URL1>>]}

DefaultPage == [status |-> "error", has_text |-> FALSE, text |-> Body(0)]
Pages == {DefaultPage,
          [status |-> "success", has_text |-> FALSE, text |-> Body(0)],
          [status |-> "success", has_text |-> TRUE,
           text |-> [lead |-> 1, body |-> 0, trail |-> 0]]}
         \cup {[status |-> "success", has_text |-> TRUE, text |-> Body(n)] :
                  n \in {1, VeryShortBelow - 1, VeryShortBelow, ShortBelow - 1, ShortBelow}}

DefaultLlm == [kind |-> "garbage", map |-> <<>>]
LlmAnswers == {DefaultLlm,
               [kind |-> "none", map |-> <<>>],
               [kind |-> "nondict", map |-> <<>>],
               [kind |-> "dict", map |-> [title |-> NAME1]],
               [kind |-> "dict", map |-> [blog_name |-> <<>>, title |-> NAME1]]}

\* the collaborators a dispatch of the call can reach
UsesProvider(call) ==
    call.name = "search_web_for_blogs" /\ call.arguments.is_mapping
    /\ Get(call.arguments, "keyword") # <<>>
UsesPage(call) ==
    call.name = "get_webpage_content_and_interact" /\ call.arguments.is_mapping
    /\ HasHttpScheme(Get(call.arguments, "url"))
UsesLlm(call, store, page) ==
    /\ call.arguments.is_mapping
    /\ \/ UsesPage(call) /\ page.status = "success" /\ page.has_text
          /\ StrippedLen(page.text) >= ShortBelow
       \/ call.name = "extract_blog_fields_from_text"
       \/ call.name = "finalize_blog_data_collection" /\ store # <<>>
       \/ call.name \in DISPATCHED_TOOLS \ KNOWN_TOOLS

Exts(call, store, br) ==
    UNION {{[provider |-> p, launch_ok |-> l, page |-> g, llm |-> m] :
               p \in IF UsesProvider(call) THEN Providers ELSE {DefaultProvider},
               l \in IF UsesPage(call) /\ ~br.driver THEN BOOLEAN ELSE {TRUE},
               m \in IF UsesLlm(call, store, g) THEN LlmAnswers ELSE {DefaultLlm}} :
           g \in IF UsesPage(call) THEN Pages ELSE {DefaultPage}}

(***************************************************************************)
(* langgraph_tools/finalization_tool.py                                    *)
(* A Python value handed to a validator is [type, str]: its type name and, *)
(* for a string, its characters.  A blog record is a function from the     *)
(* fields it holds to their string values.  The three Korean date          *)
(* characters are written as the tokens "<year>", "<month>" and "<day>".   *)
(***************************************************************************)
PyStr(s) == [type |-> "str", str |-> s]
PyNone == [type |-> "NoneType", str |-> <<>>]
PyInt == [type |-> "int", str |-> <<>>]

\* str.lstrip of the blanks urlsplit removes
LStripBlanks[s \in Seq(STRING)] ==
    IF s # <<>> /\ Head(s) = " " THEN LStripBlanks[Tail(s)] ELSE s

\* the position of the first c in s, 0 if there is none
IndexOf(s, c) ==
    IF c \in Range(s) THEN CHOOSE i \in DOMAIN s : s[i] = c /\ \A j \in 1..(i - 1) : s[j] # c
    ELSE 0

\* urlsplit: the position of the colon that ends a scheme, 0 if the text
\* does not start with one
SchemeEnd(url) ==
    LET i == IndexOf(url, ":")
    IN  IF /\ i > 1
           /\ url[1] \in Range(LowerCase) \cup Range(UpperCase)
           /\ \A k \in 1..(i - 1) : url[k] \in Range(LowerCase) \cup Range(UpperCase) \cup Digits \cup {"+", "-", "."}
        THEN i ELSE 0

\* _splitnetloc: the text up to the first '/', '?' or '#'
UpToDelimiter[s \in Seq(STRING)] ==
    IF s = <<>> \/ Head(s) \in {"/", "?", "#"} THEN <<>>
    ELSE <<Head(s)>> \o UpToDelimiter[Tail(s)]

\* urllib.parse.urlparse: [raises, scheme, netloc]
urlparse(url) ==
    LET u == SelectSeq(LStripBlanks[url], LAMBDA c : c \notin {"\n", "\r", "\t"})
        e == SchemeEnd(u)
        rest == IF e > 0 THEN Drop(u, e) ELSE u
        netloc == IF StartsWith(rest, <<"/", "/">>) THEN UpToDelimiter[Drop(rest, 2)]
                  ELSE <<>>
    IN  [raises |-> ("[" \in Range(netloc)) # ("]" \in Range(netloc)),
         scheme |-> IF e > 0 THEN lower(Take(u, e - 1)) ELSE <<>>,
         netloc |-> netloc]

\* _validate_url
validate_url(url) ==
    IF url.type # "str" \/ url.str = <<>> THEN FALSE
    ELSE IF url.str = NOT_FOUND THEN FALSE
    ELSE LET result == urlparse(url.str)
         IN  ~result.raises /\ result.scheme # <<>> /\ result.netloc # <<>>

\* one item of a pattern: between min and max characters of chars (a
\* negative max stands for no upper limit)
PatternItems == [chars : SUBSET STRING, min : Int, max : Int]
Some(chars, min, max) == [chars |-> chars, min |-> min, max |-> max]
One(c) == Some({c}, 1, 1)

\* whether the whole of s matches the items of pat, one after the other
FullMatch[s \in Seq(STRING), pat \in Seq(PatternItems)] ==
    IF pat = <<>> THEN s = <<>>
    ELSE \E k \in Head(pat).min ..
                  (IF Head(pat).max < 0 \/ Head(pat).max > Len(s)
                   THEN Len(s) ELSE Head(pat).max) :
            /\ \A j \in 1..k : s[j] \in Head(pat).chars
            /\ FullMatch[Drop(s, k), Tail(pat)]

\* re.match of a pattern of the form ^...$ (the $ also matches before one
\* final line break)
ReMatch(s, pat) ==
    \/ FullMatch[s, pat]
    \/ s # <<>> /\ s[Len(s)] = "\n" /\ FullMatch[SubSeq(s, 1, Len(s) - 1), pat]

DateSeparators == {"-", "/", "."}
Blanks == {" ", "\t", "\n", "\r"}

\* _validate_date, the four patterns of lines 121-126
date_patterns ==
    <<<<Some(Digits, 4, 4), Some(DateSeparators, 1, 1), Some(Digits, 1, 2),
        Some(DateSeparators, 1, 1), Some(Digits, 1, 2)>>,
      <<Some(Digits, 1, 2), Some(DateSeparators, 1, 1), Some(Digits, 1, 2),
        Some(DateSeparators, 1, 1), Some(Digits, 4, 4)>>,
      <<Some(Digits, 4, 4), One("<year>"), Some(Blanks, 0, -1), Some(Digits, 1, 2),
        One("<month>"), Some(Blanks, 0, -1), Some(Digits, 1, 2), One("<day>")>>,
      <<Some(Digits, 1, 2), One("<month>"), Some(Blanks, 0, -1), Some(Digits, 1, 2),
        One("<day>"), One(","), Some(Blanks, 0, -1), Some(Digits, 4, 4)>>>>

\* _validate_date
validate_date(date_str) ==
    IF date_str.type # "str" \/ date_str.str = <<>> THEN FALSE
    ELSE IF date_str.str = NOT_FOUND THEN FALSE
    ELSE \E i \in DOMAIN date_patterns : ReMatch(date_str.str, date_patterns[i])

\* _validate_number
validate_number(value) ==
    IF value.type # "str" \/ value.str = <<>> THEN FALSE
    ELSE IF value.str = NOT_FOUND THEN FALSE
    ELSE \E i \in DOMAIN value.str : value.str[i] \in Digits

\* settings.MINIMUM_BLOGS_TO_COLLECT
MINIMUM_BLOGS_TO_COLLECT == 5
\* the lengths below and above which a blog name draws a warning
NameShortBelow == 3
NameLongAbove == 100
\* the share of complete records, in tenths, below which a warning is drawn
ValidRatioTenths == 7

required_fields == <<"blog_id", "blog_name", "blog_url">>
date_fields == <<"recent_post_date", "first_post_date", "blog_creation_date">>
number_fields == <<"total_posts">>

\* field in blog and blog[field]
Truthy(blog, field) == field \in DOMAIN blog /\ blog[field] # <<>>

\* field in blog and blog[field] and blog[field] != "Not Found"
Filled(blog, field) == Truthy(blog, field) /\ blog[field] # NOT_FOUND

\* lines 217-218 and 268-270: the record holds all required fields
Complete(blog) == \A i \in DOMAIN required_fields : Filled(blog, required_fields[i])

\* an error or a warning: its kind, the number of the record (0 for the
\* list as a whole) and the field
Messages == [kind : STRING, blog : Int, field : STRING]
Message(kind, index, field) == [kind |-> kind, blog |-> index, field |-> field]

\* the concatenation of the sequences of a sequence
Flatten[ss \in Seq(Seq(Messages))] ==
    IF ss = <<>> THEN <<>> ELSE Head(ss) \o Flatten[Tail(ss)]

\* lines 208-223: the errors of one record
blog_errors(blog, index) ==
    Flatten[[i \in DOMAIN required_fields |->
                IF required_fields[i] \notin DOMAIN blog
                THEN <<Message("missing_field", index, required_fields[i])>>
                ELSE IF ~Filled(blog, required_fields[i])
                THEN <<Message("empty_field", index, required_fields[i])>>
                ELSE <<>>]]
    \o (IF Complete(blog) /\ ~validate_url(PyStr(blog["blog_url"]))
        THEN <<Message("invalid_url", index, "blog_url")>> ELSE <<>>)

\* lines 225-248: the warnings of one record
blog_warnings(blog, index) ==
    IF ~Complete(blog) THEN <<>>
    ELSE Flatten[[i \in DOMAIN date_fields |->
                     IF Filled(blog, date_fields[i])
                        /\ ~validate_date(PyStr(blog[date_fields[i]]))
                     THEN <<Message("invalid_date", index, date_fields[i])>>
                     ELSE <<>>]]
         \o Flatten[[i \in DOMAIN number_fields |->
                        IF Filled(blog, number_fields[i])
                           /\ ~validate_number(PyStr(blog[number_fields[i]]))
                        THEN <<Message("invalid_number", index, number_fields[i])>>
                        ELSE <<>>]]
         \o (IF Len(blog["blog_name"]) < NameShortBelow
             THEN <<Message("name_too_short", index, "blog_name")>>
             ELSE IF Len(blog["blog_name"]) > NameLongAbove
             THEN <<Message("name_too_long", index, "blog_name")>>
             ELSE <<>>)

\* lines 257-261: the values of the field that more than one record holds
Duplicates(blog_data_list, field) ==
    {blog_data_list[i][field] :
        i \in {k \in DOMAIN blog_data_list :
                  /\ Truthy(blog_data_list[k], field)
                  /\ \E j \in DOMAIN blog_data_list :
                        /\ j # k
                        /\ Truthy(blog_data_list[j], field)
                        /\ blog_data_list[j][field] = blog_data_list[k][field]}}

\* a variant of the validation that counts duplicates as errors
validate_blog_data_rejecting_duplicates(blog_data_list) ==
    LET n == Len(blog_data_list)
        valid_data_count == Cardinality({i \in DOMAIN blog_data_list :
                                            Complete(blog_data_list[i])})
    IN  IF blog_data_list = <<>>
        THEN [errors |-> <<Message("empty_list", 0, "")>>, warnings |-> <<>>]
        ELSE [errors |->
                 Flatten[[i \in DOMAIN blog_data_list |->
                             blog_errors(blog_data_list[i], i)]]
                 \o (IF n < MINIMUM_BLOGS_TO_COLLECT
                     THEN <<Message("too_few_blogs", 0, "")>> ELSE <<>>)
                 \o (IF Duplicates(blog_data_list, "blog_id") # {}
                     THEN <<Message("duplicate_ids", 0, "blog_id")>> ELSE <<>>)
                 \o (IF Duplicates(blog_data_list, "blog_url") # {}
                     THEN <<Message("duplicate_urls", 0, "blog_url")>> ELSE <<>>),
              warnings |->
                 Flatten[[i \in DOMAIN blog_data_list |->
                             blog_warnings(blog_data_list[i], i)]]
                 \o (IF 10 * valid_data_count < ValidRatioTenths * n /\ valid_data_count >= 1
                     THEN <<Message("low_valid_ratio", 0, "")>> ELSE <<>>)]

\* _validate_blog_data: [errors, warnings]
validate_blog_data(blog_data_list) ==
    LET n == Len(blog_data_list)
        valid_data_count == Cardinality({i \in DOMAIN blog_data_list :
                                            Complete(blog_data_list[i])})
    IN  IF blog_data_list = <<>>
        THEN [errors |-> <<Message("empty_list", 0, "")>>, warnings |-> <<>>]
        ELSE [errors |->
                 Flatten[[i \in DOMAIN blog_data_list |->
                             blog_errors(blog_data_list[i], i)]]
                 \o (IF n < MINIMUM_BLOGS_TO_COLLECT
                     THEN <<Message("too_few_blogs", 0, "")>> ELSE <<>>),
              warnings |->
                 Flatten[[i \in DOMAIN blog_data_list |->
                             blog_warnings(blog_data_list[i], i)]]
                 \o (IF Duplicates(blog_data_list, "blog_id") # {}
                     THEN <<Message("duplicate_ids", 0, "blog_id")>> ELSE <<>>)
                 \o (IF Duplicates(blog_data_list, "blog_url") # {}
                     THEN <<Message("duplicate_urls", 0, "blog_url")>> ELSE <<>>)
                 \o (IF 10 * valid_data_count < ValidRatioTenths * n /\ valid_data_count >= 1
                     THEN <<Message("low_valid_ratio", 0, "")>> ELSE <<>>)]

\* utils.format_tool_response: an error response
ErrorResponse(error, errors, warnings) ==
    [status |-> "error", error |-> error, errors |-> errors, warnings |-> warnings,
     saved_file_path |-> <<>>, total_blogs |-> 0]

\* utils.format_tool_response: the success response of lines 528-535
SuccessResponse(saved_file_path, total_blogs, warnings) ==
    [status |-> "success", error |-> "none", errors |-> <<>>, warnings |-> warnings,
     saved_file_path |-> saved_file_path, total_blogs |-> total_blogs]

\* lines 432-441: the record with its source keyword and with the sentinel
\* in every missing or empty field
Enriched(blog) ==
    [f \in DOMAIN blog \cup {"source_keyword"} \cup Range(DATA_FIELDS_TO_EXTRACT) |->
        IF f \in Range(DATA_FIELDS_TO_EXTRACT)
        THEN IF Truthy(blog, f) THEN blog[f] ELSE NOT_FOUND
        ELSE IF f \in DOMAIN blog THEN blog[f]
        ELSE <<"u","n","k","n","o","w","n">>]

\* get_data_writer: writer is what the environment provides, [custom,
\* create_raises, save_raises, path]; created is whether the module already
\* holds its writer.  The result is [raises, created].
get_data_writer(writer, created) ==
    IF writer.custom THEN [raises |-> "none", created |-> created]
    ELSE IF ~created /\ writer.create_raises # "none"
    THEN [raises |-> writer.create_raises, created |-> created]
    ELSE [raises |-> "none", created |-> TRUE]

\* the exception classes the handlers of lines 461-496 tell apart
SaveHandler(raised) ==
    CASE raised = "ImportError" -> "import_error"
      [] raised = "FileNotFoundError" -> "path_missing"
      [] raised = "PermissionError" -> "permission_denied"
      [] raised = "OSError" -> "file_system_error"
      [] OTHER -> "unexpected_save_error"

\* a variant of the save step that takes any answer of the writer as a path
SaveStepTrustingWriter(summary, warnings, writer, created) ==
    LET got == get_data_writer(writer, created)
        data == [i \in DOMAIN summary |-> Enriched(summary[i])]
    IN  IF got.raises # "none"
        THEN [response |-> SuccessResponse(<<>>, Len(data), warnings), raised |-> "none",
              gets |-> 1, saves |-> <<>>, created |-> got.created]
        ELSE [response |-> SuccessResponse(writer.path.str, Len(data), warnings),
              raised |-> "none", gets |-> 1, saves |-> <<data>>, created |-> got.created]

\* lines 429-535: the records are completed, the writer is obtained and
\* called, and its answer becomes the response; raised is the exception that
\* leaves these lines (os.path.basename of a path that is no string)
SaveStep(summary, warnings, writer, created) ==
    LET got == get_data_writer(writer, created)
        data == [i \in DOMAIN summary |-> Enriched(summary[i])]
    IN  IF got.raises # "none"
        THEN [response |-> ErrorResponse(SaveHandler(got.raises), <<>>, <<>>),
              raised |-> "none", gets |-> 1, saves |-> <<>>, created |-> got.created]
        ELSE IF writer.save_raises # "none"
        THEN [response |-> ErrorResponse(SaveHandler(writer.save_raises), <<>>, <<>>),
              raised |-> "none", gets |-> 1, saves |-> <<data>>, created |-> got.created]
        ELSE IF writer.path.type = "NoneType"
                \/ (writer.path.type = "str" /\ writer.path.str = <<>>)
        THEN [response |-> ErrorResponse("no_file_path", <<>>, <<>>),
              raised |-> "none", gets |-> 1, saves |-> <<data>>, created |-> got.created]
        ELSE IF writer.path.type # "str"
        THEN [response |-> ErrorResponse("none", <<>>, <<>>),
              raised |-> "TypeError", gets |-> 1, saves |-> <<data>>, created |-> got.created]
        ELSE [response |-> SuccessResponse(writer.path.str, Len(data), warnings),
              raised |-> "none", gets |-> 1, saves |-> <<data>>, created |-> got.created]

\* what a call that never reaches the writer gives
Refused(response, created) ==
    [response |-> response, raised |-> "none", gets |-> 0, saves |-> <<>>,
     created |-> created]

\* lines 537-563: the handlers of the whole body
OuterHandler(raised) ==
    CASE raised = "ValueError" -> "value_error"
      [] raised = "TypeError" -> "type_error"
      [] OTHER -> "unexpected_error"

\* the result of the body, with an exception turned into an error response
Handled(step) ==
    IF step.raised = "none" THEN step
    ELSE [step EXCEPT !.response = ErrorResponse(OuterHandler(step.raised), <<>>, <<>>),
                      !.raised = "none"]

\* a variant of the tool that saves whatever the validation says
finalize_without_validation(summary, completed, quality_score, recommendations, writer, created) ==
    Handled(SaveStep(summary.items, validate_blog_data(summary.items).warnings,
                     writer, created))

\* finalize_blog_data_collection(collected_blogs_summary, all_tasks_completed,
\* quality_score, recommendations, data_writer): summary is [is_list, items],
\* completed [is_bool, value], the two optional arguments the kind of value
\* given.  The result is [response, raised, gets, saves, created]: the
\* response, the exception that reaches the caller, the number of
\* get_data_writer calls, the lists handed to save_data and whether the
\* module holds its writer afterwards.
finalize_blog_data_collection(summary, completed, quality_score, recommendations, writer, created) ==
    IF ~summary.is_list
    THEN Refused(ErrorResponse("summary_not_a_list", <<>>, <<>>), created)
    ELSE IF ~completed.is_bool
    THEN Refused(ErrorResponse("completed_not_a_bool", <<>>, <<>>), created)
    ELSE IF quality_score \notin {"none", "number"}
    THEN Refused(ErrorResponse("quality_score_not_a_number", <<>>, <<>>), created)
    ELSE IF recommendations \notin {"none", "list"}
    THEN Refused(ErrorResponse("recommendations_not_a_list", <<>>, <<>>), created)
    ELSE IF ~completed.value
    THEN Refused(ErrorResponse("tasks_not_completed", <<>>, <<>>), created)
    ELSE LET checked == validate_blog_data(summary.items)
         IN  IF checked.errors # <<>>
             THEN Refused(ErrorResponse("validation_failed", checked.errors,
                                        checked.warnings), created)
             ELSE Handled(SaveStep(summary.items, checked.warnings, writer, created))

(***************************************************************************)
(* The state of one run.                                                   *)
(***************************************************************************)
VARIABLES
    pc,                         \* where run_agent_for_keywords stands
    exit_path,                  \* how the try statement was left ("none" until then)
    turn_count,                 \* reasoning-service calls made by the main loop
    messages_history,           \* the conversation
    final_structured_blog_data, \* the collection store
    browser,                    \* the browser controller, [driver, count]
    tool_calls,                 \* the calls of the current turn
    tc_index,                   \* the call the for loop stands at
    next_id,                    \* the next fresh call id
    result,                     \* the value returned ("unset" until then)
    caught,                     \* the exception an except clause caught
    force_close_calls,          \* _maybe_close_browser(force_close=True) calls of the run
    save_calls,                 \* the calls of the writer, in order
    requested,                  \* the ids of the calls the interpreter produced
    finalized,                  \* a finalize call was dispatched and succeeded
    last_dispatch               \* the latest call of _execute_tool_call: what it was
                                \* given and what it gave

\* the components that are also called on their own
VARIABLES
    unit_call,                  \* the call: the function and its arguments
    unit_result                 \* what the call gave, [done] until it is made

unit_vars == <<unit_call, unit_result>>

\* Two calls of browse_website made at once on one controller, each a
\* coroutine of the same event loop.
VARIABLES
    co_pc,                      \* where each call stands
    co_close,                   \* each call's close_browser
    co_result,                  \* the status each call has to return
    controller,                 \* the shared controller, [driver, count]
    lock_holder,                \* the call inside a with self._lock block, 0 for none
    loop_thread,                \* 0 while the loop can run a call, else the call
                                \* that blocks its thread waiting for the lock
    executor_queue              \* the calls with a job on self._executor, in order

conc_vars == <<co_pc, co_close, co_result, controller, lock_holder, loop_thread, executor_queue>>

Coroutines == {1, 2}

\* no call runs beside the run
NoCoroutines ==
    /\ co_pc = [c \in Coroutines |-> "none"]
    /\ co_close = [c \in Coroutines |-> FALSE]
    /\ co_result = [c \in Coroutines |-> "none"]
    /\ controller = NewBrowser
    /\ lock_holder = 0
    /\ loop_thread = 0
    /\ executor_queue = <<>>

\* no component is called on its own
NoCall == [op |-> "none"]
NoResult == [done |-> FALSE]

vars == <<pc, exit_path, turn_count, messages_history, final_structured_blog_data, browser,
          tool_calls, tc_index, next_id, result, caught, force_close_calls, save_calls,
          requested, finalized, last_dispatch>>

\* lines 554-566
RunInit ==
    /\ pc = "init"
    /\ exit_path = "none"
    /\ turn_count = 0
    /\ messages_history = <<SystemTurn, UserTurn>>
    /\ final_structured_blog_data = <<>>
    /\ browser = NewBrowser
    /\ tool_calls = <<>>
    /\ tc_index = 1
    /\ next_id = 1
    /\ result = "unset"
    /\ caught = "none"
    /\ force_close_calls = 0
    /\ save_calls = <<>>
    /\ requested = <<>>
    /\ finalized = FALSE
    /\ last_dispatch = [made |-> FALSE]

\* the run starts; no component is called on its own
Init ==
    /\ RunInit
    /\ unit_call = NoCall
    /\ unit_result = NoResult
    /\ NoCoroutines

\* a variant of the start of the run that goes on to the loop whether or not
\* the session was acquired
InitBrowserBestEffort ==
    /\ pc = "init"
    /\ \E launch_ok \in BOOLEAN :
          LET acq == ensure_browser(browser, launch_ok)
          IN  /\ browser' = acq.br
              /\ pc' = "turn"
    /\ UNCHANGED <<exit_path, caught, result, turn_count, messages_history,
                   final_structured_blog_data, tool_calls,
                   tc_index, next_id, force_close_calls, save_calls, requested,
                   finalized, last_dispatch>>
    /\ UNCHANGED <<unit_vars, conc_vars>>

\* lines 568-593 and 820-824: the session is acquired; a failure ends the run
\* in the RuntimeError handler (the installer call names a module that is not
\* imported, so the retry always fails)
InitBrowser ==
    /\ pc = "init"
    /\ \E launch_ok \in BOOLEAN :
          LET acq == ensure_browser(browser, launch_ok)
          IN  /\ browser' = acq.br
              /\ pc' = IF acq.raised THEN "finally" ELSE "turn"
              /\ exit_path' = IF acq.raised THEN "exception" ELSE exit_path
              /\ caught' = IF acq.raised THEN "RuntimeError" ELSE caught
              /\ result' = IF acq.raised THEN None ELSE result
    /\ UNCHANGED <<turn_count, messages_history, final_structured_blog_data, tool_calls,
                   tc_index, next_id, force_close_calls, save_calls, requested,
                   finalized, last_dispatch>>
    /\ UNCHANGED <<unit_vars, conc_vars>>

\* a variant of the turn that goes on to the next turn when the answer
\* carries no call
InterpretedContinuing(assistant, history, interp) ==
    /\ Len(requested) + Len(interp.tool_calls) <= MaxInvocations
    /\ messages_history' = history
    /\ turn_count' = turn_count + 1
    /\ next_id' = next_id + Len(assistant.tool_calls)
    /\ tool_calls' = interp.tool_calls
    /\ tc_index' = 1
    /\ requested' = requested \o
                      [j \in DOMAIN interp.tool_calls |-> interp.tool_calls[j].id]
    /\ caught' = IF interp.raised # "none" THEN interp.raised ELSE caught
    /\ result' = IF interp.raised \in RuntimeErrors THEN None ELSE result
    /\ pc' = IF interp.raised # "none" THEN "finally"
             ELSE IF interp.tool_calls = <<>> THEN "turn"
             ELSE "dispatch"
    /\ exit_path' = IF interp.raised # "none" THEN "exception" ELSE exit_path

\* lines 609-752: the assistant turn is recorded and interpreted; interp is
\* [raised, tool_calls]
Interpreted(assistant, history, interp) ==
    /\ Len(requested) + Len(interp.tool_calls) <= MaxInvocations
    /\ messages_history' = history
    /\ turn_count' = turn_count + 1
    /\ next_id' = next_id + Len(assistant.tool_calls)
    /\ tool_calls' = interp.tool_calls
    /\ tc_index' = 1
    /\ requested' = requested \o
                      [j \in DOMAIN interp.tool_calls |-> interp.tool_calls[j].id]
    /\ caught' = IF interp.raised # "none" THEN interp.raised ELSE caught
    /\ result' = IF interp.raised \in RuntimeErrors THEN None ELSE result
    /\ pc' = IF interp.raised # "none" \/ interp.tool_calls = <<>>
             THEN "finally" ELSE "dispatch"
    /\ exit_path' = IF interp.raised # "none" THEN "exception"
                    ELSE IF interp.tool_calls = <<>> THEN "no_invocation"
                    ELSE exit_path

\* lines 603-611: the answer of the reasoning service becomes the next turn
\* of the conversation
Answered(assistant, history) ==
    Interpreted(assistant, Append(history, assistant),
                interpret(assistant, Append(history, assistant)))

\* a variant of the turn that does not look at the turn cap
CallReasoningServiceUncapped ==
    /\ pc = "turn"
    /\ \E answer \in Answers(MaxInvocations - Len(requested)) :
          \E assistant \in {chat_with_ollama_for_tools(answer, next_id)},
             history \in {DecodeHistoryArguments(messages_history)} :
             Answered(assistant, history)
    /\ UNCHANGED <<final_structured_blog_data, browser, force_close_calls, save_calls,
                   finalized, last_dispatch>>
    /\ UNCHANGED <<unit_vars, conc_vars>>

\* lines 595-752: one turn up to the dispatch of its calls
CallReasoningService ==
    /\ pc = "turn"
    /\ turn_count < MaxTurns
    /\ \E answer \in Answers(MaxInvocations - Len(requested)) :
          \E assistant \in {chat_with_ollama_for_tools(answer, next_id)},
             history \in {DecodeHistoryArguments(messages_history)} :
             Answered(assistant, history)
    /\ UNCHANGED <<final_structured_blog_data, browser, force_close_calls, save_calls,
                   finalized, last_dispatch>>
    /\ UNCHANGED <<unit_vars, conc_vars>>

\* lines 595 and 816-817: the for loop is exhausted
TurnCapReached ==
    /\ pc = "turn"
    /\ turn_count = MaxTurns
    /\ pc' = "finally"
    /\ exit_path' = "turn_cap"
    /\ UNCHANGED <<turn_count, messages_history, final_structured_blog_data, browser,
                   tool_calls, tc_index, next_id, result, caught, force_close_calls,
                   save_calls, requested, finalized, last_dispatch>>
    /\ UNCHANGED <<unit_vars, conc_vars>>

\* lines 759-774: the arguments of the call do not decode; an error turn
\* is recorded and the loop goes on with the next call
SkipUndecodable(call) ==
    /\ messages_history' = Append(messages_history,
                                  Turn("tool", Result("not_json", "args_undecodable"),
                                       <<>>, call.id, call.name))
    /\ pc' = IF tc_index = Len(tool_calls) THEN "turn" ELSE "dispatch"
    /\ tc_index' = IF tc_index = Len(tool_calls) THEN tc_index ELSE tc_index + 1
    /\ UNCHANGED <<exit_path, final_structured_blog_data, browser, force_close_calls,
                   save_calls, finalized, caught, result>>

\* lines 777 and 820-829: the dispatch raised; the exception leaves the loop
DispatchRaised(out) ==
    /\ final_structured_blog_data' = out.store
    /\ browser' = out.br
    /\ caught' = out.raised
    /\ result' = IF out.raised \in RuntimeErrors THEN None ELSE result
    /\ pc' = "finally"
    /\ exit_path' = "exception"
    /\ UNCHANGED <<messages_history, tc_index, force_close_calls, save_calls, finalized>>

\* a variant of the dispatch that goes on with the loop after a successful
\* finalize
DispatchReturnedContinuing(call, out, write_ok) ==
    /\ write_ok
    /\ messages_history' = Append(messages_history,
                                  Turn("tool", out.result, <<>>, call.id, call.name))
    /\ final_structured_blog_data' = out.store
    /\ browser' = out.br
    /\ finalized' = (finalized \/ (call.name = "finalize_blog_data_collection"
                                     /\ out.result.status = "success"))
    /\ pc' = IF tc_index = Len(tool_calls) THEN "turn" ELSE "dispatch"
    /\ tc_index' = IF tc_index = Len(tool_calls) THEN tc_index ELSE tc_index + 1
    /\ UNCHANGED <<exit_path, force_close_calls, save_calls, result, caught>>

\* lines 779-814: the dispatch returned; its turn is recorded, and a
\* successful finalize ends the run
DispatchReturned(call, out, write_ok) ==
    LET finalize == call.name = "finalize_blog_data_collection"
                    /\ out.result.status = "success"
        saves == finalize /\ out.store # <<>>
        output_filepath == save_data(out.store, "agent_blog_data", write_ok)
        last == tc_index = Len(tool_calls)
    IN  /\ saves \/ write_ok
        /\ messages_history' = Append(messages_history,
                                      Turn("tool", out.result, <<>>, call.id, call.name))
        /\ final_structured_blog_data' = out.store
        /\ browser' = IF finalize THEN maybe_close_browser(out.br, TRUE) ELSE out.br
        /\ force_close_calls' = IF finalize THEN force_close_calls + 1
                                ELSE force_close_calls
        /\ save_calls' = IF saves
                         THEN Append(save_calls,
                                     [data |-> out.store, prefix |-> "agent_blog_data",
                                      returned |-> output_filepath])
                         ELSE save_calls
        /\ finalized' = (finalized \/ finalize)
        /\ result' = IF saves THEN output_filepath
                     ELSE IF finalize THEN None
                     ELSE result
        /\ pc' = IF finalize THEN "finally" ELSE IF last THEN "turn" ELSE "dispatch"
        /\ exit_path' = IF finalize THEN "finalize" ELSE exit_path
        /\ tc_index' = IF finalize \/ last THEN tc_index ELSE tc_index + 1
        /\ UNCHANGED caught

\* lines 777-814: what the outcome of the dispatch does to the run
Dispatched(call, out, write_ok) ==
    IF out.raised # "none"
    THEN write_ok /\ DispatchRaised(out)
    ELSE DispatchReturned(call, out, write_ok)

\* lines 754-814: the body of the for loop over the calls of the turn, for
\* the call at tc_index
DispatchToolCall ==
    /\ pc = "dispatch"
    /\ IF ~tool_calls[tc_index].arguments.decodable
       THEN SkipUndecodable(tool_calls[tc_index]) /\ UNCHANGED last_dispatch
       ELSE \E ext \in Exts(tool_calls[tc_index], final_structured_blog_data, browser),
               write_ok \in BOOLEAN :
               \E out \in {execute_tool_call(tool_calls[tc_index].name,
                                             tool_calls[tc_index].arguments,
                                             final_structured_blog_data, messages_history,
                                             browser, ext)} :
                  /\ Dispatched(tool_calls[tc_index], out, write_ok)
                  /\ last_dispatch' = [made |-> TRUE, call |-> tool_calls[tc_index],
                                       ext |-> ext, out |-> out,
                                       store |-> final_structured_blog_data,
                                       browser |-> browser]
    /\ UNCHANGED <<turn_count, tool_calls, next_id, requested>>
    /\ UNCHANGED <<unit_vars, conc_vars>>

\* a variant of the finally block after which no exit returns directly
FinallyBlockFallingThrough ==
    /\ pc = "finally"
    /\ browser' = maybe_close_browser(browser, TRUE)
    /\ force_close_calls' = force_close_calls + 1
    /\ pc' = "post"
    /\ UNCHANGED <<exit_path, turn_count, messages_history, final_structured_blog_data,
                   tool_calls, tc_index, next_id, result, caught, save_calls, requested,
                   finalized, last_dispatch>>
    /\ UNCHANGED <<unit_vars, conc_vars>>

\* lines 831-834: the finally block
FinallyBlock ==
    /\ pc = "finally"
    /\ browser' = maybe_close_browser(browser, TRUE)
    /\ force_close_calls' = force_close_calls + 1
    /\ pc' = IF exit_path = "finalize" \/ caught \in RuntimeErrors THEN "done" ELSE "post"
    /\ UNCHANGED <<exit_path, turn_count, messages_history, final_structured_blog_data,
                   tool_calls, tc_index, next_id, result, caught, save_calls, requested,
                   finalized, last_dispatch>>
    /\ UNCHANGED <<unit_vars, conc_vars>>

\* a variant of the end of the run that stores no placeholders
AfterTryWithoutPlaceholders ==
    /\ pc = "post"
    /\ \E write_ok \in BOOLEAN :
          LET output_filepath == save_data(final_structured_blog_data,
                                           "agent_blog_data_partial", write_ok)
          IN  /\ final_structured_blog_data # <<>> \/ write_ok
              /\ save_calls' = IF final_structured_blog_data # <<>>
                               THEN Append(save_calls,
                                           [data |-> final_structured_blog_data,
                                            prefix |-> "agent_blog_data_partial",
                                            returned |-> output_filepath])
                               ELSE save_calls
              /\ result' = output_filepath
    /\ pc' = "done"
    /\ UNCHANGED <<exit_path, turn_count, messages_history, final_structured_blog_data,
                   browser, tool_calls, tc_index, next_id, caught, force_close_calls,
                   requested, finalized, last_dispatch>>
    /\ UNCHANGED <<unit_vars, conc_vars>>

\* a variant of the end of the run that adds a placeholder for every found
\* URL without a record to the records of the store
AfterTryFillingGaps ==
    /\ pc = "post"
    /\ \E write_ok \in BOOLEAN :
          LET found == UrlsFoundInHistory(messages_history)
              missing == {u \in found :
                            \A i \in DOMAIN final_structured_blog_data :
                                final_structured_blog_data[i]["blog_url"] # u}
              order == CHOOSE q \in Orders(missing) : TRUE
              partial == final_structured_blog_data # <<>>
              data == final_structured_blog_data \o
                          [i \in DOMAIN order |-> Placeholder(order[i])]
              prefix == IF partial THEN "agent_blog_data_partial"
                        ELSE "agent_blog_data_urls_only"
              output_filepath == save_data(data, prefix, write_ok)
          IN  /\ data # <<>> \/ write_ok
              /\ final_structured_blog_data' = data
              /\ save_calls' = IF data # <<>>
                               THEN Append(save_calls, [data |-> data, prefix |-> prefix,
                                                        returned |-> output_filepath])
                               ELSE save_calls
              /\ result' = output_filepath
    /\ pc' = "done"
    /\ UNCHANGED <<exit_path, turn_count, messages_history, browser, tool_calls, tc_index,
                   next_id, caught, force_close_calls, requested, finalized, last_dispatch>>
    /\ UNCHANGED <<unit_vars, conc_vars>>

\* lines 836-875: what follows the try statement
AfterTry ==
    /\ pc = "post"
    /\ \E write_ok \in BOOLEAN, order \in Orders(UrlsFoundInHistory(messages_history)) :
          LET partial == final_structured_blog_data # <<>>
              data == IF partial THEN final_structured_blog_data
                      ELSE [i \in DOMAIN order |-> Placeholder(order[i])]
              prefix == IF partial THEN "agent_blog_data_partial"
                        ELSE "agent_blog_data_urls_only"
              output_filepath == save_data(data, prefix, write_ok)
          IN  /\ data # <<>> \/ write_ok
              /\ partial => order = CHOOSE q \in Orders(UrlsFoundInHistory(messages_history)) : TRUE
              /\ final_structured_blog_data' = data
              /\ save_calls' = IF data # <<>>
                               THEN Append(save_calls, [data |-> data, prefix |-> prefix,
                                                        returned |-> output_filepath])
                               ELSE save_calls
              /\ result' = output_filepath
    /\ pc' = "done"
    /\ UNCHANGED <<exit_path, turn_count, messages_history, browser, tool_calls, tc_index,
                   next_id, caught, force_close_calls, requested, finalized, last_dispatch>>
    /\ UNCHANGED <<unit_vars, conc_vars>>

Next ==
    \/ InitBrowser
    \/ CallReasoningService
    \/ TurnCapReached
    \/ DispatchToolCall
    \/ FinallyBlock
    \/ AfterTry

Spec == Init /\ [][Next]_vars

\* the run is one coroutine: a step that can be taken is taken (the
\* collaborators are taken to answer)
FairSpec == Spec /\ WF_vars(Next)

(***************************************************************************)
(* The components called on their own: the validators and the tool of      *)
(* langgraph_tools/finalization_tool.py and browse_website of              *)
(* core/browser_controller.py, each applied once to arguments drawn from   *)
(* the sets below.                                                         *)
(***************************************************************************)
\* the most records of a list handed to the validation
MaxBlogs == 5
\* the highest use-count a browser controller starts a call with
MaxCount == 2

URL5 == S_http \o <<"f",".","i","o","/","b">>
URL7 == S_https \o <<"h",".","i","o">>
HOST_ONLY == <<"a",".","c","o">>

\* the values handed to _validate_url
UrlInputs ==
    {PyNone, PyInt}
    \cup {PyStr(s) : s \in {<<>>, NOT_FOUND, HOST_ONLY, S_https, URL1, URL2, URL5, URL_FTP,
                            <<"h","t","t","p",":","/">> \o HOST_ONLY,
                            <<"/","/">> \o HOST_ONLY,
                            <<"H","T","T","P",":","/","/">> \o HOST_ONLY,
                            S_http \o <<":","8","0">>,
                            S_http \o <<"[">> \o HOST_ONLY,
                            S_http \o <<"?","q">>,
                            <<" ">> \o URL2,
                            <<"m","a","i","l","t","o",":","a","@","b">>}}

Blog(id, name, url) == [blog_id |-> id, blog_name |-> name, blog_url |-> url]

\* the records the lists are made of: five complete records that differ in
\* identifier and URL, one that shares an identifier and one that shares a
\* URL with them, one that draws warnings only, two that draw errors and one
\* whose URL has another scheme
RecordPool ==
    <<Blog(<<"a">>, NAME1, URL1),
      Blog(<<"b">>, NAME1, URL2),
      Blog(<<"c">>, NAME1, S_https \o <<"d",".","i","o">>) @@
          [recent_post_date |-> <<"2","0","2","4","-","1","-","5">>,
           first_post_date |-> <<"2","0","2","4","<year>"," ","1","<month>","5","<day>">>,
           total_posts |-> <<"1","2","+">>, llm_summary |-> <<>>],
      Blog(<<"d">>, NAME1, S_https \o <<"e",".","i","o">>),
      Blog(<<"e">>, NAME1, URL5),
      Blog(<<"a">>, NAME1, S_https \o <<"g",".","i","o">>),
      Blog(<<"f">>, NAME1, URL2),
      Blog(<<"g">>, <<"a","b">>, URL7) @@
          [recent_post_date |-> <<"2","4","-","1","-","5">>,
           total_posts |-> <<"m","a","n","y">>],
      [blog_id |-> <<"h">>, blog_url |-> URL7],
      Blog(<<"i">>, NAME1, HOST_ONLY),
      Blog(<<"j">>, NAME1, URL_FTP)>>

\* the non-decreasing sequences of length k over 1..m
NonDecreasing[k \in Nat, m \in Nat] ==
    IF k = 0 THEN {<<>>}
    ELSE IF m = 0 THEN {}
    ELSE NonDecreasing[k, m - 1] \cup {Append(q, m) : q \in NonDecreasing[k - 1, m]}

\* the lists handed to the validation: up to MaxBlogs records of the pool,
\* in the order of the pool
BlogLists ==
    UNION {{[i \in DOMAIN q |-> RecordPool[q[i]]] : q \in NonDecreasing[k, Len(RecordPool)]} :
           k \in 0..MaxBlogs}

\* a list without defect, one with duplicates only, one with warnings only
\* and one with too few records
SampleLists ==
    {[i \in 1..5 |-> RecordPool[i]],
     [i \in 1..5 |-> RecordPool[IF i = 5 THEN 6 ELSE IF i = 4 THEN 7 ELSE i]],
     [i \in 1..5 |-> RecordPool[IF i = 5 THEN 8 ELSE i]],
     <<RecordPool[1]>>}

SAVED_PATH == <<"o","u","t","/","d",".","x","l","s","x">>

Writer(custom, create_raises, save_raises, path) ==
    [custom |-> custom, create_raises |-> create_raises, save_raises |-> save_raises,
     path |-> path]

\* a writer that saves
GoodWriter == Writer(TRUE, "none", "none", PyStr(SAVED_PATH))

\* what the writer of a call may do: save, give no path, give something that
\* is no string, raise, or fail to be created
Writers ==
    {GoodWriter,
     Writer(TRUE, "none", "none", PyNone),
     Writer(TRUE, "none", "none", PyStr(<<>>)),
     Writer(TRUE, "none", "none", PyInt),
     Writer(FALSE, "none", "none", PyStr(SAVED_PATH)),
     Writer(FALSE, "none", "none", PyNone),
     Writer(FALSE, "ImportError", "none", PyStr(SAVED_PATH)),
     Writer(FALSE, "RuntimeError", "none", PyStr(SAVED_PATH))}
    \cup {Writer(TRUE, "none", e, PyNone) :
             e \in {"FileNotFoundError", "PermissionError", "OSError", "ValueError"}}

FinalizeCall(summary, completed, quality_score, recommendations, writer, created) ==
    [op |-> "finalize_blog_data_collection", summary |-> summary, completed |-> completed,
     quality_score |-> quality_score, recommendations |-> recommendations,
     writer |-> writer, created |-> created]

PyList(items) == [is_list |-> TRUE, items |-> items]
PyBool(value) == [is_bool |-> TRUE, value |-> value]

\* the calls of the tool: every list with a writer that saves, the sample
\* lists with every writer, and arguments of other types
FinalizeCalls ==
    {FinalizeCall(PyList(l), PyBool(b), "none", "none", GoodWriter, FALSE) :
        l \in BlogLists, b \in BOOLEAN}
    \cup {FinalizeCall(PyList(l), PyBool(TRUE), "number", "list", w, c) :
             l \in SampleLists, w \in Writers, c \in BOOLEAN}
    \cup {FinalizeCall([is_list |-> FALSE, items |-> <<>>], PyBool(TRUE), "none", "none",
                       GoodWriter, FALSE),
          FinalizeCall(PyList([i \in 1..5 |-> RecordPool[i]]),
                       [is_bool |-> FALSE, value |-> TRUE], "none", "none", GoodWriter, FALSE),
          FinalizeCall(PyList([i \in 1..5 |-> RecordPool[i]]), PyBool(TRUE), "other", "none",
                       GoodWriter, FALSE),
          FinalizeCall(PyList([i \in 1..5 |-> RecordPool[i]]), PyBool(TRUE), "none", "other",
                       GoodWriter, FALSE)}

\* the states a browser controller is called in: with or without a running
\* session (a forced release closes the session under the users that still
\* hold it), with a use-count from zero up
ControllerStates == [driver : BOOLEAN, count : 0..MaxCount]

\* the calls of browse_website: the controller before the call, whether a
\* session can be started, what the page gives, and the close_browser flag
BrowseCalls ==
    {[op |-> "browse_website", br |-> b, launch_ok |-> l, page |-> g, close_browser |-> c] :
        b \in ControllerStates, l \in BOOLEAN, g \in Pages, c \in BOOLEAN}

\* the calls made of the components
UnitCalls ==
    {[op |-> "_validate_url", url |-> u] : u \in UrlInputs}
    \cup {[op |-> "_validate_blog_data", blog_data_list |-> l] : l \in BlogLists}
    \cup FinalizeCalls
    \cup BrowseCalls

\* a component is about to be called; the run itself stays where it starts
UnitInit ==
    /\ RunInit
    /\ unit_call \in UnitCalls
    /\ unit_result = NoResult
    /\ NoCoroutines

\* _validate_url is applied
ApplyValidateUrl ==
    /\ unit_call.op = "_validate_url"
    /\ ~unit_result.done
    /\ unit_result' = [done |-> TRUE, value |-> validate_url(unit_call.url)]
    /\ UNCHANGED unit_call
    /\ UNCHANGED <<vars, conc_vars>>

\* _validate_blog_data is applied
ApplyValidateBlogData ==
    /\ unit_call.op = "_validate_blog_data"
    /\ ~unit_result.done
    /\ unit_result' = [done |-> TRUE,
                       value |-> validate_blog_data(unit_call.blog_data_list),
                       list_after |-> unit_call.blog_data_list]
    /\ UNCHANGED unit_call
    /\ UNCHANGED <<vars, conc_vars>>

\* finalize_blog_data_collection is applied
ApplyFinalize ==
    /\ unit_call.op = "finalize_blog_data_collection"
    /\ ~unit_result.done
    /\ unit_result' =
          [done |-> TRUE,
           value |-> finalize_blog_data_collection(
                         unit_call.summary, unit_call.completed, unit_call.quality_score,
                         unit_call.recommendations, unit_call.writer, unit_call.created)]
    /\ UNCHANGED unit_call
    /\ UNCHANGED <<vars, conc_vars>>

\* browse_website is applied
ApplyBrowseWebsite ==
    /\ unit_call.op = "browse_website"
    /\ ~unit_result.done
    /\ unit_result' =
          [done |-> TRUE,
           value |-> browse_website(unit_call.br, unit_call.launch_ok, unit_call.page,
                                    unit_call.close_browser)]
    /\ UNCHANGED unit_call
    /\ UNCHANGED <<vars, conc_vars>>

UnitNext ==
    \/ ApplyValidateUrl
    \/ ApplyValidateBlogData
    \/ ApplyFinalize
    \/ ApplyBrowseWebsite

UnitSpec == UnitInit /\ [][UnitNext]_unit_vars

(***************************************************************************)
(* core/browser_controller.py under concurrent use: two coroutines of one  *)
(* event loop call browse_website on the same controller.  The loop runs   *)
(* one coroutine at a time, from one await to the next; a job handed to an *)
(* executor runs in another thread, and the coroutine that awaits it goes  *)
(* on only when the loop thread is free.  threading.Lock blocks the thread *)
(* that waits for it.                                                      *)
(***************************************************************************)
\* the calls are made; the run and the components stay where they start
ConcInit ==
    /\ RunInit
    /\ unit_call = NoCall
    /\ unit_result = NoResult
    /\ co_pc = [c \in Coroutines |-> "called"]
    /\ co_close \in [Coroutines -> BOOLEAN]
    /\ co_result = [c \in Coroutines |-> "none"]
    /\ controller \in ControllerStates
    /\ lock_holder = 0
    /\ loop_thread = 0
    /\ executor_queue = <<>>

\* lines 189-190 and 121-136: the finally clause of browse_website runs
\* _maybe_close_browser up to its first await, from the controller br.  With
\* the lock held by the other call the loop thread waits at line 123.
\* Otherwise the count is lowered and either the close is handed to the
\* default executor and awaited inside the with block, or the block is left
\* and the call returns.
EnterMaybeClose(c, br) ==
    IF lock_holder \notin {0, c}
    THEN /\ loop_thread' = c
         /\ co_pc' = [co_pc EXCEPT ![c] = "lock_wait"]
         /\ controller' = br
         /\ UNCHANGED lock_holder
    ELSE LET n == br.count - 1
         IN  IF co_close[c] \/ (n <= 0 /\ br.driver)
             THEN /\ controller' = [br EXCEPT !.count = n]
                  /\ lock_holder' = c
                  /\ co_pc' = [co_pc EXCEPT ![c] = "closing"]
                  /\ UNCHANGED loop_thread
             ELSE /\ controller' = [br EXCEPT !.count = IF n < 0 THEN 0 ELSE n]
                  /\ lock_holder' = 0
                  /\ co_pc' = [co_pc EXCEPT ![c] = "returned"]
                  /\ UNCHANGED loop_thread

\* lines 146-165 and 27-43: the loop starts the call, which runs into
\* _ensure_browser.  With the lock held by the other call the loop thread
\* waits at line 29.  Otherwise the count is raised; with no session the
\* launch is handed to self._executor and awaited inside the with block
\* (line 36), with a session the block is left and the visit is handed to
\* self._executor and awaited (lines 176-179).
EnterBrowse(c) ==
    /\ loop_thread = 0
    /\ co_pc[c] = "called"
    /\ IF lock_holder # 0
       THEN /\ loop_thread' = c
            /\ co_pc' = [co_pc EXCEPT ![c] = "lock_wait"]
            /\ UNCHANGED <<controller, lock_holder, executor_queue>>
       ELSE /\ controller' = [controller EXCEPT !.count = controller.count + 1]
            /\ executor_queue' = Append(executor_queue, c)
            /\ IF controller.driver
               THEN /\ co_pc' = [co_pc EXCEPT ![c] = "browsing"]
                    /\ UNCHANGED lock_holder
               ELSE /\ co_pc' = [co_pc EXCEPT ![c] = "launching"]
                    /\ lock_holder' = c
            /\ UNCHANGED loop_thread
    /\ UNCHANGED <<co_close, co_result>>
    /\ UNCHANGED <<vars, unit_vars>>

\* lines 36-43 and 167-190: the launch is over and the loop goes on with the
\* call.  A session that started is kept, the with block is left and the
\* visit is handed to self._executor; a failed launch takes the increment
\* back, leaves the with block with RuntimeError, which browse_website turns
\* into an error envelope before its finally clause.
LaunchReturns(c) ==
    /\ loop_thread = 0
    /\ co_pc[c] = "launching"
    /\ executor_queue # <<>> /\ Head(executor_queue) = c
    /\ \E launch_ok \in BOOLEAN :
          IF launch_ok
          THEN /\ controller' = [controller EXCEPT !.driver = TRUE]
               /\ lock_holder' = 0
               /\ co_pc' = [co_pc EXCEPT ![c] = "browsing"]
               /\ executor_queue' = Append(Tail(executor_queue), c)
               /\ UNCHANGED <<loop_thread, co_result>>
          ELSE /\ executor_queue' = Tail(executor_queue)
               /\ co_result' = [co_result EXCEPT ![c] = "error"]
               /\ EnterMaybeClose(c, [controller EXCEPT !.count = controller.count - 1])
    /\ UNCHANGED co_close
    /\ UNCHANGED <<vars, unit_vars>>

\* lines 176-190: the visit is over and the loop goes on with the call: the
\* envelope is kept for the return and the finally clause runs
BrowseReturns(c) ==
    /\ loop_thread = 0
    /\ co_pc[c] = "browsing"
    /\ executor_queue # <<>> /\ Head(executor_queue) = c
    /\ executor_queue' = Tail(executor_queue)
    /\ \E status \in {"success", "error"} :
          co_result' = [co_result EXCEPT ![c] = status]
    /\ EnterMaybeClose(c, controller)
    /\ UNCHANGED co_close
    /\ UNCHANGED <<vars, unit_vars>>

\* lines 129-136 and 190: the close is over and the loop goes on with the
\* call: the session is forgotten, the with block is left, the call returns
CloseReturns(c) ==
    /\ loop_thread = 0
    /\ co_pc[c] = "closing"
    /\ controller' = [controller EXCEPT !.driver = FALSE]
    /\ lock_holder' = 0
    /\ co_pc' = [co_pc EXCEPT ![c] = "returned"]
    /\ UNCHANGED <<co_close, co_result, loop_thread, executor_queue>>
    /\ UNCHANGED <<vars, unit_vars>>

ConcNext ==
    \E c \in Coroutines :
        \/ EnterBrowse(c)
        \/ LaunchReturns(c)
        \/ BrowseReturns(c)
        \/ CloseReturns(c)

\* the loop runs a coroutine that can go on, and the executors' jobs end
ConcSpec == ConcInit /\ [][ConcNext]_conc_vars /\ WF_conc_vars(ConcNext)

(***************************************************************************)
(* Properties of the run.                                                  *)
(***************************************************************************)
\* the tool turns of the conversation that carry the call id
ToolTurnsFor(id) ==
    {k \in DOMAIN messages_history :
        /\ messages_history[k].role = "tool"
        /\ messages_history[k].tool_call_id.origin = id.origin
        /\ messages_history[k].tool_call_id.n = id.n
        /\ messages_history[k].tool_call_id = id}

\* the URLs that the successful searches of the conversation returned
SearchedUrls ==
    {u \in {URL1, URL2, URL_FTP} :
        \E k \in DOMAIN messages_history :
            /\ messages_history[k].role = "tool"
            /\ messages_history[k].name = "search_web_for_blogs"
            /\ messages_history[k].content.status = "success"
            /\ \E i \in DOMAIN messages_history[k].content.found_urls :
                   messages_history[k].content.found_urls[i] = u}

\* the writer was handed placeholders: the store was empty when the loop stopped
PlaceholdersSaved ==
    \E i \in DOMAIN save_calls : save_calls[i].prefix = "agent_blog_data_urls_only"

StoreEmptyAtStop == final_structured_blog_data = <<>> \/ PlaceholdersSaved

\* every answer of the reasoning service so far was a plain text: no call, no
\* request that can be recovered from the text
AlwaysNoOp ==
    /\ turn_count > 0
    /\ requested = <<>>
    /\ \A k \in DOMAIN messages_history :
          messages_history[k].role = "assistant"
              => /\ messages_history[k].tool_calls = <<>>
                 /\ messages_history[k].content = PlainText

\* C1: on every exit path of the run a forced close of the browser session
\* is issued exactly once: never zero times and never twice.
C1_ForcedCloseExactlyOnce == pc = "done" => force_close_calls = 1

\* a run that a successful finalize ended, closed by force twice
C1_FinalizeClosesTwice ==
    pc = "done" /\ exit_path = "finalize" /\ force_close_calls = 2

\* C2: when the run ends, every tool invocation that an assistant turn
\* contained has exactly one tool turn with its id in the conversation.
C2_OneToolTurnPerInvocation ==
    pc = "done" =>
        \A i \in DOMAIN requested : Cardinality(ToolTurnsFor(requested[i])) = 1

\* a run has ended with an invocation that no tool turn answers
C2_InvocationDropped ==
    pc = "done" /\ \E i \in DOMAIN requested : ToolTurnsFor(requested[i]) = {}

\* C3 as stated: with a reasoning service that only answers plain text and an
\* empty store, the loop stops only at the turn cap, after exactly MaxTurns
\* calls of the service.
C3_NoOpRunsToTurnCap ==
    (pc = "done" /\ AlwaysNoOp) => (turn_count = MaxTurns /\ exit_path = "turn_cap")

\* C3 as amended: with a reasoning service that answers plain text and an
\* empty store, the loop stops at the first such turn, after exactly one call
\* of the service, by the stop on a turn without invocations; nothing is
\* persisted.
C3_NoOpStopsAtFirstTurn ==
    (pc = "done" /\ AlwaysNoOp) =>
        /\ turn_count = 1
        /\ exit_path = "no_invocation"
        /\ save_calls = <<>>
        /\ result = None

\* a run of plain-text answers has ended
C3_NoOpRunEnded == pc = "done" /\ AlwaysNoOp /\ final_structured_blog_data = <<>>

\* C4: whatever the reasoning service and the tools answer, the run reaches
\* its terminal state, and the main loop never calls the reasoning service
\* more often than the turn cap allows.
C4_TerminatesWithinTurnCap == <>(pc = "done") /\ [](turn_count <= MaxTurns)

\* a run has ended after as many calls of the service as the cap allows
C4_EndedAtTurnCap == pc = "done" /\ turn_count = MaxTurns /\ exit_path = "turn_cap"

\* C5: the use-count of the browser is never negative, also after a forced
\* release issued at count zero.
C5_UseCountNeverNegative == browser.count >= 0

\* the forced release of the finally block met a count of zero
C5_ForcedReleaseAtZero ==
    pc = "done" /\ exit_path = "exception" /\ turn_count = 0 /\ browser.count < 0

\* the run ended by one of the stops of the loop, not by an exception
NormalStop == exit_path \in {"finalize", "no_invocation", "turn_cap"}

\* C6: when the loop has stopped with a non-empty store (successful finalize,
\* turn without invocations, turn cap), the writer was invoked exactly once in
\* the run, with the records of the store in their order, and the result of
\* the run is what the writer returned.
C6_NonEmptyStorePersistedOnce ==
    (pc = "done" /\ NormalStop /\ ~StoreEmptyAtStop) =>
        /\ Len(save_calls) = 1
        /\ save_calls[1].data = final_structured_blog_data
        /\ result = save_calls[1].returned

\* a run has stopped at the turn cap with two collected records
C6_TwoRecordsAtTurnCap ==
    /\ pc = "done"
    /\ exit_path = "turn_cap"
    /\ ~StoreEmptyAtStop
    /\ Len(final_structured_blog_data) = 2

\* C7 as stated: when the loop has stopped with an empty store, by a
\* successful finalize or by a turn without invocations, the writer was never
\* invoked and the result is null.
C7_EmptyStoreNeverPersisted ==
    (pc = "done" /\ exit_path \in {"finalize", "no_invocation"} /\ StoreEmptyAtStop) =>
        (save_calls = <<>> /\ result = None)

\* C7 as amended: when the loop has stopped with an empty store by a
\* successful finalize, the writer was never invoked and the result is null;
\* when it has stopped with an empty store by a turn without invocations, the
\* same holds if no successful search had returned a URL, and otherwise the
\* writer was invoked once, with one placeholder per distinct URL, and the
\* result is what the writer returned.
C7_EmptyStorePersistsOnlySearchedUrls ==
    (pc = "done" /\ exit_path \in {"finalize", "no_invocation"} /\ StoreEmptyAtStop) =>
        IF exit_path = "finalize" \/ SearchedUrls = {}
        THEN save_calls = <<>> /\ result = None
        ELSE /\ Len(save_calls) = 1
             /\ Len(save_calls[1].data) = Cardinality(SearchedUrls)
             /\ {save_calls[1].data[i].url : i \in DOMAIN save_calls[1].data} = SearchedUrls
             /\ result = save_calls[1].returned

\* a turn without invocations has stopped the loop with an empty store after
\* a search that returned URLs
C7_NoInvocationStopAfterSearch ==
    /\ pc = "done"
    /\ exit_path = "no_invocation"
    /\ StoreEmptyAtStop
    /\ SearchedUrls # {}

\* C8: once a finalize call has been dispatched and has returned a success,
\* the main loop calls the reasoning service no more and starts no turn.
C8_NoTurnAfterFinalize ==
    [][finalized => (turn_count' = turn_count /\ pc' \notin {"turn", "dispatch"})]_vars

\* a successful finalize has ended a run while a call of its turn was pending
C8_FinalizeBeforePendingCall ==
    pc = "done" /\ finalized /\ tc_index < Len(tool_calls)

\* C9 as stated: at the turn cap, with an empty store and searches that
\* returned URLs, the writer gets one placeholder per distinct URL, each with
\* the identifier 'extraction-failed' and every data field the sentinel.
C9_PlaceholdersUseSentinel ==
    (pc = "done" /\ exit_path = "turn_cap" /\ StoreEmptyAtStop /\ SearchedUrls # {}) =>
        /\ Len(save_calls) = 1
        /\ Len(save_calls[1].data) = Cardinality(SearchedUrls)
        /\ {save_calls[1].data[i].url : i \in DOMAIN save_calls[1].data} = SearchedUrls
        /\ \A i \in DOMAIN save_calls[1].data :
              /\ save_calls[1].data[i].blog_id = <<"extraction-failed">>
              /\ \A f \in DOMAIN save_calls[1].data[i] \ {"blog_id", "url"} :
                    save_calls[1].data[i][f] = NOT_FOUND

\* C9 as amended: at the turn cap, with an empty store and searches that
\* returned URLs, the writer gets one placeholder per distinct URL, each with
\* the identifier 'extraction-failed-url-only', the URL under the key url, a
\* fixed name that tells the failure, and post_title, recent_post_date and
\* total_posts set to 'N/A'.
C9_PlaceholdersPerDistinctUrl ==
    (pc = "done" /\ exit_path = "turn_cap" /\ StoreEmptyAtStop /\ SearchedUrls # {}) =>
        /\ Len(save_calls) = 1
        /\ save_calls[1].prefix = "agent_blog_data_urls_only"
        /\ Len(save_calls[1].data) = Cardinality(SearchedUrls)
        /\ {save_calls[1].data[i].url : i \in DOMAIN save_calls[1].data} = SearchedUrls
        /\ \A i \in DOMAIN save_calls[1].data :
              /\ DOMAIN save_calls[1].data[i] =
                     {"blog_name", "url", "blog_id", "post_title", "recent_post_date",
                      "total_posts"}
              /\ save_calls[1].data[i].blog_id = <<"extraction-failed-url-only">>
              /\ save_calls[1].data[i].blog_name = <<"extraction failed - URL only">>
              /\ \A f \in {"post_title", "recent_post_date", "total_posts"} :
                    save_calls[1].data[i][f] = <<"N/A">>

\* the turn cap was reached with an empty store after two searches that
\* returned the same URL and another one
C9_TurnCapAfterSearches ==
    /\ pc = "done"
    /\ exit_path = "turn_cap"
    /\ Len(save_calls) = 1
    /\ save_calls[1].prefix = "agent_blog_data_urls_only"
    /\ Len(save_calls[1].data) = 2
    /\ Cardinality({k \in DOMAIN messages_history :
                       /\ messages_history[k].role = "tool"
                       /\ messages_history[k].content.kind = "search_ok"
                       /\ URL1 \in Range(messages_history[k].content.found_urls)}) = 2

\* C10: an exception that escapes while the loop runs, whatever its type,
\* leaves the run with the persistence of the turn cap: the writer gets the
\* records of the store, or placeholders for the searched URLs if it is empty.
C10_ExceptionStillPersists ==
    (pc = "done" /\ exit_path = "exception" /\ turn_count > 0
        /\ (final_structured_blog_data # <<>> \/ SearchedUrls # {})) =>
        /\ Len(save_calls) = 1
        /\ result = save_calls[1].returned

\* an exception of the RuntimeError family ended a run whose store held a
\* record, and the writer was not invoked
C10_RuntimeErrorLosesRecords ==
    /\ pc = "done"
    /\ exit_path = "exception"
    /\ caught \in RuntimeErrors
    /\ turn_count > 0
    /\ final_structured_blog_data # <<>>
    /\ save_calls = <<>>

\* C11: the conversation is append-only: a step of the run changes no turn
\* that was appended before, neither its role nor its content nor its tool
\* calls with their arguments.
C11_ConversationAppendOnly ==
    [][/\ Len(messages_history') >= Len(messages_history)
       /\ \A i \in DOMAIN messages_history :
              messages_history'[i] = messages_history[i]]_vars

\* the arguments of a call of an earlier assistant turn, recorded as a JSON
\* string, have become the decoded object
C11_ArgumentsEditedInPlace ==
    \E i \in DOMAIN messages_history :
        /\ messages_history[i].role = "assistant"
        /\ \E j \in DOMAIN messages_history[i].tool_calls :
               messages_history[i].tool_calls[j].arguments.form = "obj"

\* C12: a call whose name is not one of the four names of the tool schema is
\* not executed: its dispatch returns an error result, calls neither the
\* reasoning service nor the browser, and leaves the store as it was.
C12_UnknownToolNotExecuted ==
    (last_dispatch.made /\ last_dispatch.call.name \notin KNOWN_TOOLS) =>
        /\ last_dispatch.out.raised = "none"
        /\ last_dispatch.out.result.status = "error"
        /\ last_dispatch.out.llm_calls = 0
        /\ last_dispatch.out.browses = 0
        /\ last_dispatch.out.store = last_dispatch.store

\* a structured call of analyze_blog_quality, a name the schema does not
\* list, was executed: it called the reasoning service and returned a success
C12_UnlistedToolExecuted ==
    /\ last_dispatch.made
    /\ last_dispatch.call.name = "analyze_blog_quality"
    /\ last_dispatch.out.result.status = "success"
    /\ last_dispatch.out.llm_calls = 1

\* the stripped length of the text that the visited page of the latest
\* dispatch carried
FetchedLength ==
    IF last_dispatch.ext.page.has_text THEN StrippedLen(last_dispatch.ext.page.text) ELSE 0

\* the latest dispatch was a fetch whose visit succeeded
FetchSucceeded ==
    /\ last_dispatch.made
    /\ last_dispatch.call.name = "get_webpage_content_and_interact"
    /\ last_dispatch.out.browses = 1
    /\ last_dispatch.ext.page.status = "success"
    /\ last_dispatch.ext.launch_ok

\* C13: a fetch whose visit succeeded starts the extraction exactly once if
\* the stripped text has 300 characters or more and not at all below; a fetch
\* of 0 characters starts none, adds no record and carries a warning.
C13_AutoExtractionOnlyForGoodText ==
    FetchSucceeded =>
        /\ last_dispatch.out.auto = (IF FetchedLength >= 300 THEN 1 ELSE 0)
        /\ FetchedLength < 300 =>
              /\ last_dispatch.out.llm_calls = 0
              /\ last_dispatch.out.store = last_dispatch.store
        /\ FetchedLength = 0 => last_dispatch.out.result.warning

\* a fetch of 300 characters started one extraction, which added a record
C13_GoodFetchExtractedOnce ==
    /\ FetchSucceeded
    /\ FetchedLength = 300
    /\ last_dispatch.out.auto = 1
    /\ last_dispatch.out.llm_calls = 1
    /\ Len(last_dispatch.out.store) = Len(last_dispatch.store) + 1

\* the reasoning service has asked for no extraction in this run
NoExtractRequested ==
    /\ \A k \in DOMAIN messages_history :
          messages_history[k].role = "tool"
              => messages_history[k].name # "extract_blog_fields_from_text"
    /\ \A j \in DOMAIN tool_calls : tool_calls[j].name # "extract_blog_fields_from_text"

\* the name that the field-extraction output of the latest dispatch carries:
\* the value under its first name key (the output exists if the dispatch has
\* called the reasoning service)
ExtractedName ==
    IF last_dispatch.ext.llm.kind = "dict"
    THEN FirstPresent(last_dispatch.ext.llm.map, field_mapping_table["blog_name"])
    ELSE <<>>

\* C14: after a search that returned a URL and a fetch of that URL with 300
\* characters or more, with no extraction asked for by the reasoning service
\* and a field-extraction output that decodes to a mapping with a name, the
\* store has gained exactly one record, with that name and the identifier
\* derived from the URL and the name (https://www.a-b.co/p1 and 'Test Blog'
\* give a_b_co_testblog).
C14_FetchAloneYieldsRecord ==
    (/\ FetchSucceeded
     /\ FetchedLength >= 300
     /\ Get(last_dispatch.call.arguments, "url") = URL1
     /\ URL1 \in SearchedUrls
     /\ NoExtractRequested
     /\ last_dispatch.out.llm_calls = 1
     /\ ExtractedName = NAME1) =>
        /\ Len(last_dispatch.out.store) = Len(last_dispatch.store) + 1
        /\ SubSeq(last_dispatch.out.store, 1, Len(last_dispatch.store)) = last_dispatch.store
        /\ last_dispatch.out.store[Len(last_dispatch.out.store)]["blog_name"] = NAME1
        /\ last_dispatch.out.store[Len(last_dispatch.out.store)]["blog_id"] =
               <<"a","_","b","_","c","o","_","t","e","s","t","b","l","o","g">>

\* a search has returned the URL, its fetch gave 300 characters and the
\* store holds the one record that the fetch extracted
C14_SearchThenFetchExtracted ==
    /\ FetchSucceeded
    /\ FetchedLength = 300
    /\ URL1 \in SearchedUrls
    /\ NoExtractRequested
    /\ ExtractedName = NAME1
    /\ Len(final_structured_blog_data) = 1
    /\ final_structured_blog_data[1]["source_keyword"] = KEYWORD1

\* C15: the quality classification of a successful fetch depends on the
\* stripped text length n alone: 'empty' iff n = 0, 'very_short' iff
\* 1 <= n <= 99, 'short' iff 100 <= n <= 299, 'good' iff n >= 300; the
\* warning is non-empty iff the classification is below 'good'.
C15_QualityBands ==
    FetchSucceeded =>
        /\ last_dispatch.out.result.status = "success"
        /\ last_dispatch.out.result.text_length = FetchedLength
        /\ last_dispatch.out.result.quality_status = "empty" <=> FetchedLength = 0
        /\ last_dispatch.out.result.quality_status = "very_short"
              <=> (1 <= FetchedLength /\ FetchedLength <= 99)
        /\ last_dispatch.out.result.quality_status = "short"
              <=> (100 <= FetchedLength /\ FetchedLength <= 299)
        /\ last_dispatch.out.result.quality_status = "good" <=> FetchedLength >= 300
        /\ last_dispatch.out.result.warning
              <=> last_dispatch.out.result.quality_status # "good"

\* a fetch of exactly 100 characters was classified 'short', with a warning
C15_HundredCharactersAreShort ==
    /\ FetchSucceeded
    /\ FetchedLength = 100
    /\ last_dispatch.out.result.quality_status = "short"
    /\ last_dispatch.out.result.warning

\* the text that the extract call of the latest dispatch was given
ExtractText ==
    IF "text_content" \in DOMAIN last_dispatch.call.arguments.map
    THEN last_dispatch.call.arguments.map["text_content"]
    ELSE [lead |-> 0, body |-> 0, trail |-> 0]

\* the latest dispatch was an extract call with a text of fewer than 50
\* characters after trimming
ShortExtractDispatched ==
    /\ last_dispatch.made
    /\ last_dispatch.call.name = "extract_blog_fields_from_text"
    /\ last_dispatch.call.arguments.is_mapping
    /\ StrippedLen(ExtractText) < 50

\* C16: an extract call whose text has fewer than 50 characters after
\* trimming returns an error result, makes no reasoning-service call and
\* leaves the store as it was.
C16_ShortTextRejected ==
    ShortExtractDispatched =>
        /\ last_dispatch.out.raised = "none"
        /\ last_dispatch.out.result.status = "error"
        /\ last_dispatch.out.llm_calls = 0
        /\ last_dispatch.out.store = last_dispatch.store

\* an extract call with a short text has raised instead of returning
C16_ShortExtractRaised ==
    ShortExtractDispatched /\ last_dispatch.out.raised # "none"

\* the latest dispatch was a fetch call without a url or with a url that
\* begins with neither http:// nor https://
FetchWithoutWebUrl ==
    /\ last_dispatch.made
    /\ last_dispatch.call.name = "get_webpage_content_and_interact"
    /\ last_dispatch.call.arguments.is_mapping
    /\ ~HasHttpScheme(Get(last_dispatch.call.arguments, "url"))

\* C17: a fetch call whose url is missing or begins with neither http:// nor
\* https:// returns an error result without a call of the browser
\* controller: use-count and session are as they were before the dispatch.
C17_BadUrlLeavesBrowserAlone ==
    FetchWithoutWebUrl =>
        /\ last_dispatch.out.raised = "none"
        /\ last_dispatch.out.result.status = "error"
        /\ last_dispatch.out.browses = 0
        /\ last_dispatch.out.br = last_dispatch.browser

\* a fetch of an ftp:// URL was dispatched while the session was running
C17_FtpUrlRefused ==
    /\ FetchWithoutWebUrl
    /\ Get(last_dispatch.call.arguments, "url") = URL_FTP
    /\ last_dispatch.browser.driver
    /\ last_dispatch.browser.count = 1

\* C18: the store never holds two records with the same identifier.
C18_IdentifiersDistinct ==
    \A i, j \in DOMAIN final_structured_blog_data :
        i # j => final_structured_blog_data[i]["blog_id"] # final_structured_blog_data[j]["blog_id"]

\* an explicit extract of a URL, whose fetch had already extracted a record
\* by itself, has added a second record with the same identifier
C18_ExtractAfterAutoExtraction ==
    /\ last_dispatch.made
    /\ last_dispatch.call.name = "extract_blog_fields_from_text"
    /\ Len(last_dispatch.store) = 1
    /\ \E k \in DOMAIN messages_history :
          /\ messages_history[k].role = "tool"
          /\ messages_history[k].name = "get_webpage_content_and_interact"
          /\ messages_history[k].content.status = "success"
          /\ messages_history[k].content.url = last_dispatch.store[1]["blog_url"]
    /\ Len(last_dispatch.out.store) = 2
    /\ last_dispatch.out.store[1]["blog_id"] = last_dispatch.out.store[2]["blog_id"]
    /\ last_dispatch.out.store[2]["blog_url"] = last_dispatch.store[1]["blog_url"]

\* the values that stand for a URL that is not known
UrlSentinels == {NOT_FOUND, <<"N/A">>, <<"unknown_url">>}

\* C19: every record handed to the writer has a blog_url field that is
\* present, non-empty and no sentinel.
C19_WrittenRecordsHaveUrl ==
    \A c \in DOMAIN save_calls :
        \A i \in DOMAIN save_calls[c].data :
            /\ "blog_url" \in DOMAIN save_calls[c].data[i]
            /\ save_calls[c].data[i]["blog_url"] # <<>>
            /\ save_calls[c].data[i]["blog_url"] \notin UrlSentinels

\* the writer was handed a placeholder record, which has no blog_url field
C19_PlaceholderWithoutBlogUrl ==
    \E c \in DOMAIN save_calls :
        /\ save_calls[c].prefix = "agent_blog_data_urls_only"
        /\ \E i \in DOMAIN save_calls[c].data :
               "blog_url" \notin DOMAIN save_calls[c].data[i]

\* the writer was handed a record of the free-text fallback whose blog_url
\* is the stand-in 'unknown_url'
C19_FallbackRecordWithoutUrl ==
    \E c \in DOMAIN save_calls :
        \E i \in DOMAIN save_calls[c].data :
            /\ "blog_url" \in DOMAIN save_calls[c].data[i]
            /\ save_calls[c].data[i]["blog_url"] = <<"unknown_url">>

\* the value of the first alias that is a key of raw with a non-empty value;
\* <<>> if there is none
FirstNonEmpty(raw, aliases) ==
    LET filled == {i \in DOMAIN aliases :
                      aliases[i] \in DOMAIN raw /\ raw[aliases[i]] # <<>>}
    IN  IF filled = {} THEN <<>>
        ELSE raw[aliases[CHOOSE i \in filled : \A j \in filled : i <= j]]

\* the latest dispatch has structured a decoded mapping into a new record
StructuredFromMapping ==
    /\ last_dispatch.made
    /\ last_dispatch.out.raised = "none"
    /\ last_dispatch.out.llm_calls = 1
    /\ last_dispatch.ext.llm.kind = "dict"
    /\ Len(last_dispatch.out.store) = Len(last_dispatch.store) + 1

\* C20: each canonical field of a structured record is the value of the
\* first alias that the extraction output holds with a non-empty value (an
\* empty earlier alias does not hide a later one), and it is the 'Not Found'
\* sentinel only if no alias has a non-empty value.
C20_FirstNonEmptyAliasWins ==
    StructuredFromMapping =>
        \A f \in DOMAIN field_mapping_table :
            /\ FirstNonEmpty(last_dispatch.ext.llm.map, field_mapping_table[f]) # <<>>
                  => last_dispatch.out.store[Len(last_dispatch.out.store)][f] =
                         FirstNonEmpty(last_dispatch.ext.llm.map, field_mapping_table[f])
            /\ last_dispatch.out.store[Len(last_dispatch.out.store)][f] = NOT_FOUND
                  => FirstNonEmpty(last_dispatch.ext.llm.map, field_mapping_table[f]) = <<>>

\* an output with an empty blog_name and a title has given a record whose
\* name is the sentinel
C20_EmptyAliasHidesLaterOne ==
    /\ StructuredFromMapping
    /\ "blog_name" \in DOMAIN last_dispatch.ext.llm.map
    /\ last_dispatch.ext.llm.map["blog_name"] = <<>>
    /\ last_dispatch.ext.llm.map["title"] = NAME1
    /\ last_dispatch.out.store[Len(last_dispatch.out.store)]["blog_name"] = NOT_FOUND

\* the latest turn of the conversation is an assistant turn without a
\* structured call whose text holds an object with a known name and a
\* parameters map
FencedKnownObject ==
    LET last == messages_history[Len(messages_history)]
    IN  /\ last.role = "assistant"
        /\ last.tool_calls = <<>>
        /\ last.content.kind # "none"
        /\ last.content.decode_raises = "none"
        /\ last.content.parsed.is_obj
        /\ last.content.parsed.has_name
        /\ last.content.parsed.has_parameters
        /\ last.content.parsed.name \in KNOWN_TOOLS
        /\ last.content.parsed.parameters.is_mapping

\* the calls of the turn the reasoning service would have built from one
\* structured call that carries the object, with arguments of the given type
StructuredCounterpart(obj, type) ==
    chat_with_ollama_for_tools(
        [failed |-> FALSE, content |-> NoContent,
         calls |-> <<RawCall(obj.name,
                             [type |-> type, decodes |-> TRUE,
                              value |-> obj.parameters])>>],
        next_id).tool_calls

FallbackTurn ==
    LET last == messages_history[Len(messages_history)]
    IN  /\ last.role = "assistant"
        /\ last.tool_calls = <<>>
        /\ last.content.kind # "none"
        /\ last.content.decode_raises = "none"
        /\ ~last.content.parsed.is_obj
        /\ last.content.mentions_extract

\* C22: for a text turn that names the extraction tool and decodes to no
\* object, the fallback gives one extract invocation exactly if the text
\* holds both a text_content value and a url value, and none otherwise.
C22_FallbackNeedsTextAndUrl ==
    FallbackTurn =>
        LET c == messages_history[Len(messages_history)].content
        IN  /\ (c.has_text_match /\ c.url_match # <<>>) => Len(tool_calls) = 1
            /\ ~(c.has_text_match /\ c.url_match # <<>>) => tool_calls = <<>>

\* C22 (amended): the fallback gives one extract invocation exactly if the
\* text holds a text_content value; its url is the one of the text, else the
\* url of the latest successful fetch of the conversation, else
\* 'unknown_url'.  Without a text_content value it gives none.
C22_FallbackNeedsTextOnly ==
    FallbackTurn =>
        LET c == messages_history[Len(messages_history)].content
        IN  /\ c.has_text_match =>
                  /\ Len(tool_calls) = 1
                  /\ tool_calls[1].name = "extract_blog_fields_from_text"
                  /\ Get(tool_calls[1].arguments, "original_url") =
                         IF c.url_match # <<>> THEN c.url_match
                         ELSE IF RecentUrl(messages_history) # <<>>
                              THEN RecentUrl(messages_history)
                              ELSE <<"unknown_url">>
            /\ ~c.has_text_match => tool_calls = <<>>

\* a text without a url, in a conversation without a fetch, has become an
\* extract invocation for 'unknown_url'
C22_UnknownUrlSubstituted ==
    /\ FallbackTurn
    /\ pc = "dispatch"
    /\ messages_history[Len(messages_history)].content.url_match = <<>>
    /\ Len(tool_calls) = 1
    /\ Get(tool_calls[1].arguments, "original_url") = <<"unknown_url">>

\* the latest turn of the conversation is an assistant turn from which no
\* invocation was recovered
NothingRecovered ==
    LET last == messages_history[Len(messages_history)]
    IN  /\ last.role = "assistant"
        /\ last.tool_calls = <<>>
        /\ tool_calls = <<>>

\* C23: interpreting an assistant turn never raises into the loop: a turn
\* from which no invocation is recovered ends the loop as "no tool
\* requested", never through an exception.
C23_InterpretingNeverRaises ==
    NothingRecovered => exit_path = "no_invocation" /\ caught = "none"

\* a text whose decoding exceeds the recursion limit has ended the run in
\* the RuntimeError handler, with no file
C23_DecodingRaisedIntoLoop ==
    /\ NothingRecovered
    /\ messages_history[Len(messages_history)].content.decode_raises = "RecursionError"
    /\ pc = "done"
    /\ exit_path = "exception"
    /\ caught = "RecursionError"
    /\ result = None

\* the latest dispatch was a search with a keyword that the search provider
\* failed to answer
SearchProviderFailed ==
    /\ last_dispatch.made
    /\ UsesProvider(last_dispatch.call)
    /\ ~last_dispatch.ext.provider.ok

\* C24: a failure of the search provider during a dispatch is surfaced as a
\* tool result with status error, not as a success without URLs, and the
\* loop goes on.
C24_ProviderFailureIsError ==
    SearchProviderFailed =>
        /\ last_dispatch.out.raised = "none"
        /\ last_dispatch.out.result.status = "error"

\* a search whose provider failed has been answered with a success result
\* that lists no URL, and the loop has gone on
C24_FailedSearchReportedAsSuccess ==
    /\ SearchProviderFailed
    /\ last_dispatch.out.raised = "none"
    /\ last_dispatch.out.result.status = "success"
    /\ last_dispatch.out.result.found_urls = <<>>
    /\ pc \in {"turn", "dispatch"}
    /\ messages_history[Len(messages_history)].role = "tool"
    /\ messages_history[Len(messages_history)].content.status = "success"

\* the file-name prefixes of the three save calls of the run
SavePrefixes == {"agent_blog_data", "agent_blog_data_partial", "agent_blog_data_urls_only"}

\* C25: the value returned by the run identifies the terminal reason, also
\* when the run failed or collected nothing.  A run that failed in the
\* RuntimeError handler returns None, so None must stand for that reason
\* alone: no run that was finalized, reached the turn cap or ended without
\* an invocation returns it.
C25_ReturnIdentifiesReason ==
    pc = "done" =>
        /\ caught \in RuntimeErrors => result = None
        /\ result = None => exit_path = "exception"

\* C25 (amended): the value returned by the run is the path its one save
\* call returned, or None if nothing was saved; the prefix of the path tells
\* a finalized run from a run that ended otherwise.
C25_ReturnIsPathOrNone ==
    pc = "done" =>
        /\ result \in SavePrefixes \cup {None}
        /\ result = IF save_calls = <<>> THEN None
                    ELSE save_calls[Len(save_calls)].returned
        /\ result = "agent_blog_data" => exit_path = "finalize"
        /\ result \in SavePrefixes \ {"agent_blog_data"} =>
               exit_path # "finalize" /\ caught \notin RuntimeErrors

\* a finalized run with an empty store has returned None, as a failed run does
C25_FinalizedRunReturnedNone ==
    /\ pc = "done"
    /\ exit_path = "finalize"
    /\ final_structured_blog_data = <<>>
    /\ save_calls = <<>>
    /\ result = None

\* the tool was applied
FinalizeApplied == unit_call.op = "finalize_blog_data_collection" /\ unit_result.done

\* the arguments of the call have the types the tool asks for
WellTyped ==
    /\ unit_call.summary.is_list
    /\ unit_call.completed.is_bool
    /\ unit_call.quality_score \in {"none", "number"}
    /\ unit_call.recommendations \in {"none", "list"}

\* the call says that all tasks are completed and its records validate
\* without an error
SaveDue ==
    /\ WellTyped
    /\ unit_call.completed.value
    /\ validate_blog_data(unit_call.summary.items).errors = <<>>

\* C26: the tool calls save_data exactly if all_tasks_completed is true and
\* the validation gives no error (and a writer is there to be called);
\* otherwise it returns status error and never reaches the writer.  Warnings
\* do not prevent the save: with a writer that saves, the result is success
\* and lists them.
C26_SaveIffCompletedAndValid ==
    FinalizeApplied =>
        /\ ~SaveDue =>
              /\ unit_result.value.response.status = "error"
              /\ unit_result.value.gets = 0
              /\ unit_result.value.saves = <<>>
        /\ SaveDue =>
              /\ unit_result.value.gets = 1
              /\ get_data_writer(unit_call.writer, unit_call.created).raises = "none"
                    => Len(unit_result.value.saves) = 1
              /\ unit_call.writer = GoodWriter =>
                    /\ unit_result.value.response.status = "success"
                    /\ unit_result.value.response.warnings =
                           validate_blog_data(unit_call.summary.items).warnings

\* a list that draws warnings and no error was saved, and the success
\* response lists the warnings
C26_SavedDespiteWarnings ==
    /\ FinalizeApplied
    /\ SaveDue
    /\ validate_blog_data(unit_call.summary.items).warnings # <<>>
    /\ Len(unit_result.value.saves) = 1
    /\ unit_result.value.response.status = "success"
    /\ unit_result.value.response.warnings # <<>>

\* the call reached the save and its writer failed: it could not be
\* obtained, it raised, or it returned no path
WriterFailed ==
    /\ SaveDue
    /\ \/ get_data_writer(unit_call.writer, unit_call.created).raises # "none"
       \/ unit_call.writer.save_raises # "none"
       \/ unit_call.writer.path.type = "NoneType"
       \/ unit_call.writer.path.str = <<>>

\* C27: when the writer fails (it cannot be obtained, it raises, or save_data
\* returns no path) the tool returns status error with an error message and
\* raises nothing to its caller; a success result is returned only when
\* save_data returned a path, which the result then carries.
C27_WriterFailureIsErrorResult ==
    FinalizeApplied =>
        /\ unit_result.value.raised = "none"
        /\ WriterFailed =>
              /\ unit_result.value.response.status = "error"
              /\ unit_result.value.response.error # "none"
        /\ unit_result.value.response.status = "success" =>
              /\ Len(unit_result.value.saves) = 1
              /\ unit_call.writer.save_raises = "none"
              /\ unit_call.writer.path.type = "str"
              /\ unit_call.writer.path.str # <<>>
              /\ unit_result.value.response.saved_file_path = unit_call.writer.path.str

\* the module's writer could not be created: save_data was never called and
\* the result is the error of the ImportError handler
C27_ImportErrorReported ==
    /\ FinalizeApplied
    /\ WriterFailed
    /\ unit_call.writer.create_raises = "ImportError"
    /\ unit_result.value.saves = <<>>
    /\ unit_result.value.response.status = "error"
    /\ unit_result.value.response.error = "import_error"

\* the validation was applied
ValidationApplied == unit_call.op = "_validate_blog_data" /\ unit_result.done

\* the kinds of the messages of a sequence
Kinds(messages) == {messages[i].kind : i \in DOMAIN messages}

\* the list has no defect but duplication: it is long enough and each of its
\* records would pass in a list of that length that holds no other record
OnlyDuplicationDefect(list) ==
    /\ Len(list) >= MINIMUM_BLOGS_TO_COLLECT
    /\ \A i \in DOMAIN list : blog_errors(list[i], i) = <<>>
    /\ Duplicates(list, "blog_id") # {} \/ Duplicates(list, "blog_url") # {}

\* C28: records that share an identifier or a URL are tolerated by
\* _validate_blog_data: each kind of duplication adds one warning and no
\* error, the list is left as it was, and a list whose only defect is
\* duplication validates with zero errors.
C28_DuplicatesWarnNeverFail ==
    ValidationApplied =>
        LET list == unit_call.blog_data_list
            r == unit_result.value
        IN  /\ Kinds(r.errors) \cap {"duplicate_ids", "duplicate_urls"} = {}
            /\ Duplicates(list, "blog_id") # {} <=> "duplicate_ids" \in Kinds(r.warnings)
            /\ Duplicates(list, "blog_url") # {} <=> "duplicate_urls" \in Kinds(r.warnings)
            /\ Cardinality({i \in DOMAIN r.warnings :
                               r.warnings[i].kind = "duplicate_ids"}) <= 1
            /\ Cardinality({i \in DOMAIN r.warnings :
                               r.warnings[i].kind = "duplicate_urls"}) <= 1
            /\ unit_result.list_after = list
            /\ OnlyDuplicationDefect(list) => r.errors = <<>>

\* five records of which two share an identifier and two others a URL have
\* validated with both warnings and no error
C28_DuplicatedListValidated ==
    /\ ValidationApplied
    /\ OnlyDuplicationDefect(unit_call.blog_data_list)
    /\ Duplicates(unit_call.blog_data_list, "blog_id") # {}
    /\ Duplicates(unit_call.blog_data_list, "blog_url") # {}
    /\ \E i, j \in DOMAIN unit_call.blog_data_list :
          /\ unit_call.blog_data_list[i]["blog_id"] = unit_call.blog_data_list[j]["blog_id"]
          /\ unit_call.blog_data_list[i]["blog_url"] # unit_call.blog_data_list[j]["blog_url"]
    /\ unit_result.value.errors = <<>>
    /\ Kinds(unit_result.value.warnings) = {"duplicate_ids", "duplicate_urls"}

\* the URL check was applied
UrlCheckApplied == unit_call.op = "_validate_url" /\ unit_result.done

\* the value is a string with the scheme http or https and a host part
WebUrl(url) ==
    /\ url.type = "str"
    /\ ~urlparse(url.str).raises
    /\ urlparse(url.str).scheme \in {<<"h","t","t","p">>, <<"h","t","t","p","s">>}
    /\ urlparse(url.str).netloc # <<>>

\* C29: _validate_url returns true exactly for the strings that have the
\* scheme http or https and a non-empty host; it returns false for the empty
\* string, None, 'Not Found', a string without scheme, a string without host
\* and a URL with another scheme such as ftp.
C29_TrueExactlyForWebUrls ==
    UrlCheckApplied => (unit_result.value <=> WebUrl(unit_call.url))

\* the ftp URL was accepted
C29_FtpUrlAccepted ==
    /\ UrlCheckApplied
    /\ unit_call.url = PyStr(URL_FTP)
    /\ unit_result.value = TRUE

\* C30: in every step of the run, a running session is torn down only by a
\* forced release or by a release that brings the use-count to zero; a step
\* without a forced release that leaves the count above zero keeps the
\* session running; a dispatch that visits a page while a session is running
\* reuses it (its acquisition and its release leave session and count as they
\* were); and a session is started only by the acquisition of a controller
\* with no session running.
C30_SessionLifetime ==
    [][/\ (browser.driver /\ ~browser'.driver) =>
              (force_close_calls' > force_close_calls \/ browser'.count = 0)
       /\ (browser.driver /\ force_close_calls' = force_close_calls /\ browser'.count > 0) =>
              browser'.driver
       /\ (/\ pc = "dispatch"
           /\ last_dispatch'.made
           /\ last_dispatch'.call = tool_calls[tc_index]
           /\ last_dispatch'.browser = browser
           /\ last_dispatch'.out.browses > 0
           /\ browser.driver) =>
              last_dispatch'.out.br = browser
       /\ (~browser.driver /\ browser'.driver) =>
              (pc = "init" /\ browser'.count = browser.count + 1)]_vars

\* a dispatch has visited a page, and after its non-forced release the
\* session is still running for the run that holds it
C30_SessionKeptWhileInUse ==
    /\ last_dispatch.made
    /\ last_dispatch.out.browses > 0
    /\ last_dispatch.browser.driver
    /\ last_dispatch.out.br.driver
    /\ last_dispatch.out.br.count = 1
    /\ browser.driver

\* the run has left the try statement before its first call of the
\* reasoning service
LeftBeforeFirstTurn == turn_count = 0 /\ pc \in {"finally", "post", "done"}

\* C31 as stated: when the acquisition of the session at the start of the
\* run fails, the run goes on to its first turn.
C31_RunGoesOnAfterInitFailure ==
    [][(pc = "init" /\ ~browser'.driver) => pc' = "turn"]_vars

\* C31, amended: when the acquisition of the session at the start of the run
\* fails, the run ends there: it goes to the finally block with a
\* RuntimeError caught and None as its result, and a run that has left the
\* loop before its first turn has made no call of the reasoning service, of
\* a tool or of the writer, and never reaches the code after the try
\* statement.
C31_InitFailureEndsRun ==
    /\ [][(pc = "init" /\ ~browser'.driver) =>
              (pc' = "finally" /\ caught' = "RuntimeError" /\ result' = None)]_vars
    /\ [](LeftBeforeFirstTurn =>
              /\ exit_path = "exception"
              /\ caught = "RuntimeError"
              /\ result = None
              /\ pc # "post"
              /\ ~browser.driver
              /\ messages_history = <<SystemTurn, UserTurn>>
              /\ ~last_dispatch.made
              /\ save_calls = <<>>)

\* the run has ended after a failed acquisition, without a turn
C31_RunEndedAtInit ==
    pc = "done" /\ turn_count = 0 /\ result = None /\ force_close_calls = 1

\* the records handed to the writer by the latest save call of the run
Persisted == IF save_calls = <<>> THEN <<>> ELSE save_calls[Len(save_calls)].data

\* the URLs of successful searches for which the run extracted no record
SearchedWithoutRecord ==
    {u \in SearchedUrls :
        \A i \in DOMAIN Persisted :
            "blog_url" \in DOMAIN Persisted[i] => Persisted[i]["blog_url"] # u}

\* the run ended by the turn cap
EndedAtTurnCap == pc = "done" /\ exit_path = "turn_cap"

\* C32 as stated: at the turn cap every URL of a successful search without
\* an extracted record has a placeholder in the persisted output, whether or
\* not the store holds records.
C32_EveryBareUrlGetsPlaceholder ==
    EndedAtTurnCap =>
        \A u \in SearchedWithoutRecord :
            \E i \in DOMAIN Persisted : Persisted[i] = Placeholder(u)

\* C32, amended: at the turn cap every URL of a successful search has a
\* placeholder in the persisted output when the store is empty; when the
\* store holds records, the output is those records alone, under the prefix
\* agent_blog_data_partial, and no searched URL gets a placeholder.
C32_PlaceholdersOnlyForEmptyStore ==
    EndedAtTurnCap =>
        IF StoreEmptyAtStop
        THEN \A u \in SearchedUrls :
                 \E i \in DOMAIN Persisted : Persisted[i] = Placeholder(u)
        ELSE /\ Len(save_calls) = 1
             /\ save_calls[1].prefix = "agent_blog_data_partial"
             /\ Persisted = final_structured_blog_data
             /\ \A i \in DOMAIN Persisted : "blog_url" \in DOMAIN Persisted[i]

\* the run ended by the turn cap with a record in the store and a searched
\* URL that has neither a record nor a placeholder
C32_BareUrlBesideRecords ==
    /\ EndedAtTurnCap
    /\ ~StoreEmptyAtStop
    /\ SearchedWithoutRecord # {}

\* the step is a dispatch of the call the loop stands at, recorded in
\* last_dispatch
DispatchStep ==
    /\ pc = "dispatch"
    /\ last_dispatch'.made
    /\ last_dispatch'.call = tool_calls[tc_index]
    /\ last_dispatch'.store = final_structured_blog_data
    /\ last_dispatch'.out.store = final_structured_blog_data'

\* the step appends one record to the store and leaves the others as they were
AppendsOneRecord ==
    /\ Len(final_structured_blog_data') = Len(final_structured_blog_data) + 1
    /\ SubSeq(final_structured_blog_data', 1, Len(final_structured_blog_data))
           = final_structured_blog_data

\* what a step does to the store while the loop runs
StepOnStore ==
    pc \in {"init", "turn", "dispatch"} =>
        \/ final_structured_blog_data' = final_structured_blog_data
        \/ /\ DispatchStep
           /\ AppendsOneRecord
           /\ last_dispatch'.out.raised = "none"
           /\ last_dispatch'.out.result.status = "success"
           /\ \/ last_dispatch'.call.name = "extract_blog_fields_from_text"
              \/ /\ last_dispatch'.call.name = "get_webpage_content_and_interact"
                 /\ last_dispatch'.out.auto = 1
                 /\ last_dispatch'.out.result.quality_status = "good"

FailureTurns ==
    {k \in DOMAIN messages_history :
        /\ messages_history[k].role = "assistant"
        /\ messages_history[k].content.kind = "error"}

\* C34: a failed call of the reasoning service becomes an assistant turn of
\* the conversation and never an exception of the run: with such a turn in
\* the conversation no exception was caught, and the run goes on or has left
\* the loop by a turn without invocation (the way into FINALIZING), by a
\* finalize or by the turn cap.
C34_ServiceFailureNeverFails ==
    FailureTurns # {} =>
        /\ caught = "none"
        /\ exit_path \in {"none", "no_invocation", "finalize", "turn_cap"}
        /\ \A k \in FailureTurns : messages_history[k].tool_calls = <<>>
        /\ pc = "done" => result # "unset"

\* a run has ended whose last call of the reasoning service failed
C34_RunEndedAfterServiceFailure ==
    /\ pc = "done"
    /\ Len(messages_history) \in FailureTurns
    /\ exit_path = "no_invocation"

\* turn k is an assistant turn without a structured call whose text decodes
\* to an object with a name that is not a known tool name
UnknownNameTurn(history, k) ==
    /\ history[k].role = "assistant"
    /\ history[k].tool_calls = <<>>
    /\ history[k].content.kind = "text"
    /\ history[k].content.decode_raises = "none"
    /\ history[k].content.parsed.is_obj
    /\ history[k].content.parsed.has_name
    /\ history[k].content.parsed.name \notin KNOWN_TOOLS

\* the turn of the loop that records such a text
UnknownNameStep ==
    /\ pc = "turn"
    /\ turn_count' = turn_count + 1
    /\ UnknownNameTurn(messages_history', Len(messages_history'))

\* C35: a text that decodes to an object with an unknown name yields no
\* invocation: the turn that records it produces no call and no call id,
\* dispatches nothing, leaves the store and the browser as they were, and no
\* tool turn ever follows it in the conversation.
C35_UnknownNameDiscarded ==
    /\ [][UnknownNameStep =>
              /\ tool_calls' = <<>>
              /\ requested' = requested
              /\ pc' # "dispatch"
              /\ last_dispatch' = last_dispatch
              /\ final_structured_blog_data' = final_structured_blog_data
              /\ browser' = browser]_vars
    /\ [](\A k \in DOMAIN messages_history :
              UnknownNameTurn(messages_history, k) => k = Len(messages_history))

\* the run has ended after a text that asked for a tool named bogus_tool
C35_UnknownNameEndedRun ==
    /\ pc = "done"
    /\ UnknownNameTurn(messages_history, Len(messages_history))
    /\ messages_history[Len(messages_history)].content.parsed.name = "bogus_tool"
    /\ ~last_dispatch.made

\* the latest turn of the conversation is an assistant turn without a
\* structured call whose text begins with prose, has no fenced block and
\* holds one object with a known name and a parameters map
EmbeddedKnownObject ==
    LET last == messages_history[Len(messages_history)]
    IN  /\ last.role = "assistant"
        /\ last.tool_calls = <<>>
        /\ last.content.kind = "text"
        /\ ~last.content.parsed.is_obj
        /\ last.content.embedded.is_obj
        /\ last.content.embedded.has_name
        /\ last.content.embedded.has_parameters
        /\ last.content.embedded.name \in KNOWN_TOOLS

\* C36: a text that begins with prose, has no fenced block and holds one
\* object with a known name and a parameters map gives exactly one
\* invocation, with the name and the parameters of the object.
C36_EmbeddedObjectRecovered ==
    EmbeddedKnownObject =>
        /\ Len(tool_calls) = 1
        /\ tool_calls[1].name = messages_history[Len(messages_history)].content.embedded.name
        /\ tool_calls[1].arguments =
               messages_history[Len(messages_history)].content.embedded.parameters

\* a search object that follows prose was not recovered: the turn gave no
\* invocation and the run ended without a dispatch of it
C36_EmbeddedObjectIgnored ==
    /\ EmbeddedKnownObject
    /\ messages_history[Len(messages_history)].content.embedded.name = "search_web_for_blogs"
    /\ tool_calls = <<>>
    /\ pc = "done"
    /\ exit_path = "no_invocation"

\* the assistant turn of the loop iteration that appended turn k: the latest
\* assistant turn before k (0 if there is none)
IterationTurn(k) ==
    LET before == {j \in 1..(k - 1) : messages_history[j].role = "assistant"}
    IN  IF before = {} THEN 0 ELSE CHOOSE j \in before : \A i \in before : i <= j

\* the tool turn k carries the id of a call that the assistant turn of its
\* iteration lists
ListedByIterationTurn(k) ==
    /\ IterationTurn(k) # 0
    /\ \E c \in DOMAIN messages_history[IterationTurn(k)].tool_calls :
           messages_history[IterationTurn(k)].tool_calls[c].id
               = messages_history[k].tool_call_id

\* C37: every tool turn of the conversation carries the id of a call that
\* is listed in the tool calls of the assistant turn appended before it in
\* the same iteration of the loop, for structured calls and for calls
\* recovered from the text alike.
C37_ToolTurnAnswersListedCall ==
    \A k \in DOMAIN messages_history :
        messages_history[k].role = "tool" => ListedByIterationTurn(k)

\* a tool turn answers a call recovered from the text, and the assistant
\* turn of its iteration lists no call
C37_RecoveredCallNotListed ==
    \E k \in DOMAIN messages_history :
        /\ messages_history[k].role = "tool"
        /\ messages_history[k].tool_call_id.origin = "content"
        /\ IterationTurn(k) = k - 1
        /\ messages_history[k - 1].tool_calls = <<>>

\* the latest dispatch was a finalize call
FinalizeDispatched ==
    /\ last_dispatch.made
    /\ last_dispatch.call.name = "finalize_blog_data_collection"

\* C38: a finalize call dispatched by the loop returns a success result,
\* whatever its arguments and whatever the store holds, and ends the run in
\* its turn: no call of the reasoning service and no dispatch follows it.
C38_FinalizeAlwaysSucceeds ==
    FinalizeDispatched =>
        /\ last_dispatch.out.raised = "none"
        /\ last_dispatch.out.result.status = "success"
        /\ exit_path = "finalize"
        /\ pc \in {"finally", "done"}

\* a finalize call met a non-empty store and an analysis answer without a
\* content: the dispatch raised TypeError and the run ended by the exception
C38_FinalizeRaised ==
    /\ FinalizeDispatched
    /\ last_dispatch.store # <<>>
    /\ last_dispatch.ext.llm.kind = "none"
    /\ last_dispatch.out.raised = "TypeError"
    /\ exit_path = "exception"
    /\ pc = "done"

\* browse_website was applied with close_browser false
BrowsedWithoutClose ==
    /\ unit_call.op = "browse_website"
    /\ unit_result.done
    /\ ~unit_call.close_browser

\* C39: a call of browse_website with close_browser false returns an
\* envelope and leaves the use-count as it found it, from every count of
\* zero or more, for a success envelope and for an error envelope, also when
\* the session could not be started.
C39_NoNetEffectOnCount ==
    BrowsedWithoutClose =>
        /\ unit_result.value.result.status \in {"success", "error"}
        /\ unit_result.value.br.count = unit_call.br.count

\* a call with close_browser false that could not start the session has
\* returned an error envelope and taken one from a use-count of one
C39_FailedLaunchLowersCount ==
    /\ BrowsedWithoutClose
    /\ ~unit_call.br.driver
    /\ ~unit_call.launch_ok
    /\ unit_call.br.count = 1
    /\ unit_result.value.result.status = "error"
    /\ unit_result.value.br.count = 0

\* the loop thread waits for the lock while the call that holds it is
\* suspended inside its with block
LoopBlockedOnHeldLock ==
    /\ loop_thread # 0
    /\ lock_holder \notin {0, loop_thread}
    /\ co_pc[lock_holder] \in {"launching", "closing"}

\* C40: two calls of browse_website made at once on one controller by
\* coroutines of the same event loop both return in the end, and the loop
\* thread never waits for the lock while the other call holds it across an
\* await.
C40_BothCallsReturn ==
    /\ [](~LoopBlockedOnHeldLock)
    /\ <>(\A c \in Coroutines : co_pc[c] = "returned")

\* with no session running the first call awaits the launch inside the with
\* block of _ensure_browser and the second blocks the loop thread at the
\* same block: neither call has returned and no step is left
C40_DeadlockAtLaunch ==
    /\ LoopBlockedOnHeldLock
    /\ co_pc[lock_holder] = "launching"
    /\ co_pc[loop_thread] = "lock_wait"
    /\ \A c \in Coroutines : co_pc[c] # "returned"
    /\ ~ENABLED ConcNext

=============================================================================
